---- MODULE Spec2Model ----
(***************************************************************************)
(* LinkedScout: the pacing governor (utils/rate_limiter.py RateLimiter),   *)
(* the fetch controller (scraper/client.py LinkedInClient), the markup     *)
(* extraction (scraper/parser.py HTMLParser) and the search criteria       *)
(* (models/search.py SearchCriteria).                                      *)
(*                                                                         *)
(* Time is counted in integer ticks.  Delays and the backoff multiplier    *)
(* are floats in the source; here they are integers and the arithmetic is  *)
(* exact, so floating-point rounding is outside the model.                 *)
(***************************************************************************)
EXTENDS Integers, Sequences, FiniteSets, TLC

\* ---------------------------------------------------------------- bounds
MaxDelay == 3          \* largest delay parameter a governor is built with
MaxMultiplier == 2     \* largest backoff multiplier
MaxResetAfter == 2     \* largest recovery threshold
NCallers == 2          \* concurrent tasks sharing one governor
MaxBackoffRun == 3     \* longest run of consecutive increase_backoff() calls

Min(a, b) == IF a <= b THEN a ELSE b
Max(a, b) == IF a >= b THEN a ELSE b

RECURSIVE Pow(_, _)
Pow(b, k) == IF k = 0 THEN 1 ELSE b * Pow(b, k - 1)

\* ---------------------------------------------------------------- state
VARIABLES
    \* RateLimiter fields
    constructed,            \* __init__ has returned a governor
    min_delay,              \* self._min_delay
    backoff_multiplier,     \* self._backoff_multiplier
    max_delay,              \* self._max_delay
    reset_after,            \* self._reset_after
    current_delay,          \* self._current_delay
    consecutive_successes,  \* self._consecutive_successes
    elapsed,                \* time.monotonic() - self._last_request, saturating
    locked,                 \* self._lock is held
    lock_waiters,           \* FIFO of tasks suspended on self._lock
    acq,                    \* per task: where it is inside acquire()
    sleep_left,             \* ticks left of the lock holder's asyncio.sleep
    \* observations of the governor (not program state)
    just_granted,           \* the last step granted an acquisition
    grants,                 \* acquisitions granted so far: 0, 1, or 2 and more
    last_gap,               \* at a grant: time since the previous grant, saturating
    wait_delay,             \* current_delay read at line 43 by the acquirer that
                            \* sleeps or was just granted
    run_len,                \* K: length of the running increase_backoff() run
    run_base,               \* D0: the delay before that run started
    streak,                 \* record_success() calls since the last backoff, -1: n/a
    backoff_delay,          \* the delay the last increase_backoff() left
    \* LinkedInClient, its settings and the criteria of the search
    client_open,            \* self._client is not None
    max_retries,            \* self._settings.max_retries
    max_results,            \* criteria.max_results
    pc,                     \* where the search task is
    all_jobs,               \* search: all_jobs
    start,                  \* search: start
    jobs,                   \* search: the page _fetch_page returned
    attempt,                \* _fetch_page: attempt
    last_exc,               \* _fetch_page: last_exc
    raised_cause,           \* the __cause__ of the error _fetch_page raised
    returned,               \* search has returned
    result,                 \* the list search returned
    \* observations of the fetch (not program state)
    page_log,               \* the requests of the current page: outcome, and
                            \* whether an acquire() completed since the last request
    paced,                  \* an acquire() completed since the last request returned
    page_successes,         \* record_success() calls during the current page
    page_start_delay,       \* current_delay when the current page's fetch began
    offsets,                \* the offsets of the pages requested, in order
    \* the session that owns the client (services/job_service.py, lines 48-49)
    session,                \* where the `async with LinkedInClient(...)` block is
    open_conns,             \* httpx.AsyncClient objects created and not closed
    \* SearchCriteria and its serialisation (models/search.py)
    criteria,               \* the SearchCriteria built, or NoCriteria
    rejected,               \* SearchCriteria(...) raised a validation error
    params,                 \* what to_params() returned, or NoParams
    \* HTMLParser.parse_jobs (scraper/parser.py)
    doc,                    \* the cards the selector of line 41 finds, in order
    parse_pc,               \* "idle", "done" (returned) or "raised"
    parsed,                 \* the list parse_jobs returned
    \* SqliteStore (storage/sqlite_store.py) and the JobService that uses it
    rows,                   \* the rows of table jobs
    store_clock,            \* the latest datetime.now() a save has read
    store_op,               \* observation: the last call, its arguments and result
    \* JsonStore (storage/json_store.py)
    json_files,             \* the files of the output directory: <<path, content>>
    json_op,                \* observation: the last call, its arguments and result
    json_saved,             \* observation: the name and the jobs of the last save
    \* AlertService (services/alert_service.py)
    alerts_file,            \* the alerts file: NoFile, or the alerts it lists
    alerts_dir,             \* the directory migrate_from_directory reads
    alert_op,               \* observation: the last call, its arguments and result
    \* HTMLParser._extract_job_id and _parse_relative_time (scraper/parser.py)
    id_card,                \* the card handed to _extract_job_id
    id_op,                  \* observation: the card of the last call and its result
    time_text,              \* the text handed to _parse_relative_time
    time_op                 \* observation: the text of the last call and its result

limiterVars == <<constructed, min_delay, backoff_multiplier, max_delay,
                 reset_after, current_delay, consecutive_successes, elapsed,
                 locked, lock_waiters, acq, sleep_left>>
grantObs == <<just_granted, grants, last_gap, wait_delay>>
backoffObs == <<run_len, run_base, streak, backoff_delay>>
limiterObs == <<grantObs, backoffObs>>

clientVars == <<client_open, max_retries, max_results, pc, all_jobs, start,
                jobs, attempt, last_exc, raised_cause, returned, result>>
clientObs == <<page_log, paced, page_successes, page_start_delay, offsets>>

\* The search itself: everything of the client but the connection it holds.
searchVars == <<max_retries, max_results, pc, all_jobs, start, jobs, attempt,
                last_exc, raised_cause, returned, result>>
sessionVars == <<session, open_conns>>
criteriaVars == <<criteria, rejected, params>>
parserVars == <<doc, parse_pc, parsed>>
storeVars == <<rows, store_clock, store_op>>
jsonVars == <<json_files, json_op, json_saved>>
alertVars == <<alerts_file, alerts_dir, alert_op>>
storageVars == <<storeVars, jsonVars, alertVars>>
markupVars == <<id_card, id_op, time_text, time_op>>

vars == <<limiterVars, limiterObs, clientVars, clientObs, sessionVars,
          criteriaVars, parserVars, storageVars, markupVars>>

\* What a step of a governor used on its own leaves alone, and what a step of
\* the fetch leaves alone.
limiterFrame == <<clientVars, clientObs, sessionVars, criteriaVars, parserVars,
    storageVars, markupVars>>
fetchFrame == <<limiterObs, sessionVars, criteriaVars, parserVars,
    storageVars, markupVars>>
sessionFrame == <<limiterVars, limiterObs, searchVars, clientObs, criteriaVars,
                  parserVars,
    storageVars, markupVars>>

\* The tasks that may call acquire(): 0 is the fetch session's own task.
Tasks == 0..NCallers
Callers == 1..NCallers

\* elapsed saturates here: every delay a governor can hold is at most MaxDelay,
\* so a larger elapsed time compares the same against any current_delay.
ElapsedCap == MaxDelay

\* Constructor arguments, valid and invalid ones.
MinDelays == -1..MaxDelay
Multipliers == 0..MaxMultiplier
MaxDelays == 0..MaxDelay
ResetAfters == -1..MaxResetAfter

\* The four parameter invariants of section 4.1 / tests lines 236-261.
ValidParams(mn, mu, mx, ra) == mn >= 0 /\ mu >= 1 /\ mx >= mn /\ ra >= 0
ValidConfig == ValidParams(min_delay, backoff_multiplier, max_delay, reset_after)

\* ---------------------------------------------------------------- RateLimiter
\* RateLimiter.__init__: stores its arguments; it checks none of them.
RateLimiterInit(mn, mu, mx, ra) ==
    /\ constructed' = TRUE
    /\ min_delay' = mn
    /\ backoff_multiplier' = mu
    /\ max_delay' = mx
    /\ reset_after' = ra
    /\ current_delay' = mn
    /\ consecutive_successes' = 0
    /\ UNCHANGED <<elapsed, locked, lock_waiters, acq, sleep_left>>

limiterConfig == <<constructed, min_delay, backoff_multiplier, max_delay,
                   reset_after>>
limiterDelay == <<current_delay, consecutive_successes>>
limiterClock == <<elapsed, locked, lock_waiters, acq, sleep_left>>

\* Line 43: the acquirer must wait.
MustWait == elapsed < current_delay

\* A sleep one tick short of the remainder.
SleepForShort == current_delay - elapsed - 1

\* Line 44: the argument of asyncio.sleep.
SleepFor == current_delay - elapsed

\* The stamp of line 45 and the release of the lock: the acquisition is granted.
Grant(p) ==
    /\ elapsed' = 0
    /\ locked' = FALSE
    /\ acq' = [acq EXCEPT ![p] = "idle"]
    /\ sleep_left' = 0

\* Lines 41-45, run by the task that has just taken the lock: either it sleeps
\* the remainder (and keeps the lock), or it is granted at once.
AcquireBody(p) ==
    IF MustWait
    THEN /\ acq' = [acq EXCEPT ![p] = "sleeping"]
         /\ sleep_left' = SleepFor
         /\ locked' = TRUE
         /\ UNCHANGED elapsed
    ELSE Grant(p)

\* asyncio.Lock.acquire returns at once: the lock is free and nobody queues.
LockFree == ~locked /\ lock_waiters = <<>>

\* acquire() is called, line 40: the caller takes the lock at once, or is
\* suspended at the end of the lock's queue.
AcquireCall(p) ==
    /\ constructed
    /\ acq[p] = "idle"
    /\ IF LockFree
       THEN /\ AcquireBody(p)
            /\ UNCHANGED lock_waiters
       ELSE /\ lock_waiters' = Append(lock_waiters, p)
            /\ acq' = [acq EXCEPT ![p] = "waiting"]
            /\ UNCHANGED <<elapsed, locked, sleep_left>>
    /\ UNCHANGED <<limiterConfig, limiterDelay>>

\* The released lock goes to the first task queued for it, which runs lines 41-45.
LockHandoff(p) ==
    /\ ~locked
    /\ lock_waiters # <<>>
    /\ Head(lock_waiters) = p
    /\ lock_waiters' = Tail(lock_waiters)
    /\ AcquireBody(p)
    /\ UNCHANGED <<limiterConfig, limiterDelay>>

\* asyncio.sleep returns: line 45 stamps the grant and the lock is released.
AcquireWake(p) ==
    /\ acq[p] = "sleeping"
    /\ sleep_left = 0
    /\ Grant(p)
    /\ UNCHANGED <<limiterConfig, limiterDelay, lock_waiters>>

\* A backoff that adds the multiplier instead of multiplying by it.
BackoffDelayAdds == Min(current_delay + backoff_multiplier, max_delay)

\* A backoff that forgets the cap.
BackoffDelayUncapped == current_delay * backoff_multiplier

\* increase_backoff(), lines 50-53: the new delay.
BackoffDelay == Min(current_delay * backoff_multiplier, max_delay)

\* increase_backoff(), lines 50-54.
increase_backoff ==
    /\ current_delay' = BackoffDelay
    /\ consecutive_successes' = 0
    /\ UNCHANGED <<limiterConfig, limiterClock>>

\* A threshold test that fires one success early.
SuccessResetsEarly == consecutive_successes + 1 >= reset_after - 1

\* A threshold test that is off by one.
SuccessResetsLate == consecutive_successes + 1 > reset_after

\* record_success(), line 60, after the increment of line 59.
SuccessResets == consecutive_successes + 1 >= reset_after

\* record_success(), lines 59-61, with the reset_backoff() it calls.
record_success ==
    /\ IF SuccessResets
       THEN /\ current_delay' = min_delay
            /\ consecutive_successes' = 0
       ELSE /\ consecutive_successes' = consecutive_successes + 1
            /\ UNCHANGED current_delay
    /\ UNCHANGED <<limiterConfig, limiterClock>>

\* reset_backoff(), lines 66-67.
reset_backoff ==
    /\ current_delay' = min_delay
    /\ consecutive_successes' = 0
    /\ UNCHANGED <<limiterConfig, limiterClock>>

\* One tick of time.monotonic(); the sleeper's timer runs down with it.
Tick ==
    /\ elapsed' = Min(elapsed + 1, ElapsedCap)
    /\ sleep_left' = Max(sleep_left - 1, 0)
    /\ UNCHANGED <<limiterConfig, limiterDelay, locked, lock_waiters, acq>>

\* ------------------------------------------------- the governor on its own
\* What the governor's steps leave in the observation variables.
NoGrantSeen ==
    /\ just_granted' = FALSE
    /\ last_gap' = 0
    /\ UNCHANGED grants

GrantSeen ==
    /\ just_granted' = TRUE
    /\ last_gap' = elapsed
    /\ grants' = Min(grants + 1, 2)

\* A task ran lines 41-45: it was granted at once, or it sleeps.
BodySeen(p) ==
    /\ wait_delay' = current_delay
    /\ IF acq'[p] = "idle" THEN GrantSeen ELSE NoGrantSeen

\* wait_delay is held for the sleeping acquirer only.
WaitDelayKept ==
    wait_delay' = IF \E p \in Tasks : acq'[p] = "sleeping" THEN wait_delay ELSE 0

RunEnds ==
    /\ run_len' = 0
    /\ run_base' = 0

\* No criteria built, nothing serialised, nothing parsed.
NoCriteria == [given |-> FALSE]
NoParams == {}
NoCriteriaBuilt ==
    /\ criteria = NoCriteria
    /\ rejected = FALSE
    /\ params = NoParams
ParserIdle ==
    /\ doc = <<>>
    /\ parse_pc = "idle"
    /\ parsed = <<>>

\* Nothing stored, exported or saved: the storage is not part of the run.
NoFile == [exists |-> FALSE]
NoOp == [op |-> "none"]
NoStorage ==
    /\ rows = {}
    /\ store_clock = 0
    /\ store_op = NoOp
    /\ json_files = {}
    /\ json_op = NoOp
    /\ json_saved = NoOp
    /\ alerts_file = NoFile
    /\ alerts_dir = NoFile
    /\ alert_op = NoOp

\* No card and no text has been handed to the parser's helpers.
NoCard == [given |-> FALSE]
NoMarkup ==
    /\ id_card = NoCard
    /\ id_op = NoOp
    /\ time_text = <<>>
    /\ time_op = NoOp

\* No client: a governor used directly by its callers.
NoClient ==
    /\ NoStorage
    /\ NoMarkup
    /\ session = "new"
    /\ open_conns = 0
    /\ NoCriteriaBuilt
    /\ ParserIdle
    /\ client_open = FALSE
    /\ max_retries = 1
    /\ max_results = 1
    /\ pc = "idle"
    /\ all_jobs = <<>>
    /\ start = 0
    /\ jobs = <<>>
    /\ attempt = 0
    /\ last_exc = "none"
    /\ raised_cause = "none"
    /\ returned = FALSE
    /\ result = <<>>
    /\ page_log = <<>>
    /\ paced = FALSE
    /\ page_successes = 0
    /\ page_start_delay = 0
    /\ offsets = <<>>

\* A governor not yet constructed, at any reading of the clock.
LimiterInit ==
    /\ NoClient
    /\ constructed = FALSE
    /\ min_delay = 0
    /\ backoff_multiplier = 1
    /\ max_delay = 0
    /\ reset_after = 0
    /\ current_delay = 0
    /\ consecutive_successes = 0
    /\ elapsed \in 0..ElapsedCap
    /\ locked = FALSE
    /\ lock_waiters = <<>>
    /\ acq = [p \in Tasks |-> "idle"]
    /\ sleep_left = 0
    /\ just_granted = FALSE
    /\ grants = 0
    /\ last_gap = 0
    /\ wait_delay = 0
    /\ run_len = 0
    /\ run_base = 0
    /\ streak = -1
    /\ backoff_delay = 0


\* RateLimiter(...) with arguments that satisfy the four parameter invariants.
Construct ==
    /\ ~constructed
    /\ \E mn \in MinDelays, mu \in Multipliers, mx \in MaxDelays, ra \in ResetAfters :
           /\ ValidParams(mn, mu, mx, ra)
           /\ RateLimiterInit(mn, mu, mx, ra)
    /\ UNCHANGED limiterObs
    /\ UNCHANGED limiterFrame

\* RateLimiter(...) with any arguments.
ConstructAny ==
    /\ ~constructed
    /\ \E mn \in MinDelays, mu \in Multipliers, mx \in MaxDelays, ra \in ResetAfters :
           RateLimiterInit(mn, mu, mx, ra)
    /\ UNCHANGED limiterObs
    /\ UNCHANGED limiterFrame

CallAcquire ==
    \E p \in Callers :
        /\ AcquireCall(p)
        /\ IF LockFree
           THEN BodySeen(p)
           ELSE NoGrantSeen /\ UNCHANGED wait_delay
        /\ UNCHANGED backoffObs
        /\ UNCHANGED limiterFrame

Handoff ==
    \E p \in Callers :
        /\ LockHandoff(p)
        /\ BodySeen(p)
        /\ UNCHANGED backoffObs
        /\ UNCHANGED limiterFrame

Wake ==
    \E p \in Callers :
        /\ AcquireWake(p)
        /\ GrantSeen
        /\ UNCHANGED wait_delay
        /\ UNCHANGED backoffObs
        /\ UNCHANGED limiterFrame

CallIncreaseBackoff ==
    /\ constructed
    /\ run_len < MaxBackoffRun
    /\ increase_backoff
    /\ run_len' = run_len + 1
    /\ run_base' = IF run_len = 0 THEN current_delay ELSE run_base
    /\ streak' = 0
    /\ backoff_delay' = BackoffDelay
    /\ NoGrantSeen
    /\ WaitDelayKept
    /\ UNCHANGED limiterFrame

CallRecordSuccess ==
    /\ constructed
    /\ record_success
    /\ RunEnds
    /\ streak' = IF streak < 0 THEN streak ELSE Min(streak + 1, MaxResetAfter + 1)
    /\ UNCHANGED backoff_delay
    /\ NoGrantSeen
    /\ WaitDelayKept
    /\ UNCHANGED limiterFrame

CallResetBackoff ==
    /\ constructed
    /\ reset_backoff
    /\ RunEnds
    /\ streak' = -1
    /\ backoff_delay' = 0
    /\ NoGrantSeen
    /\ WaitDelayKept
    /\ UNCHANGED limiterFrame

ClockTick ==
    /\ constructed
    /\ Tick
    /\ NoGrantSeen
    /\ WaitDelayKept
    /\ UNCHANGED backoffObs
    /\ UNCHANGED limiterFrame

LimiterNext ==
    \/ Construct
    \/ CallAcquire
    \/ Handoff
    \/ Wake
    \/ CallIncreaseBackoff
    \/ CallRecordSuccess
    \/ CallResetBackoff
    \/ ClockTick

SpecLimiter == LimiterInit /\ [][LimiterNext]_vars

ConstructNext == ConstructAny

SpecConstruct == LimiterInit /\ [][ConstructNext]_vars

\* ---------------------------------------------------------------- LinkedInClient
PAGE_SIZE == 25
ResultCeiling == 1000
MaxResultsLimit == 1000

NoTime == 0 - 1

\* A job record as far as search reads it: its identifier and its two times.
Job(i, posted, scraped) == [id |-> i, posted_at |-> posted, scraped_at |-> scraped]

\* A sort key that reads the posted time only.
SortKeyPosted(j) == j.posted_at

\* The sort key of lines 102-106.
SortKey(j) ==
    IF j.posted_at # NoTime THEN j.posted_at
    ELSE IF j.scraped_at # NoTime THEN j.scraped_at
    ELSE 0

\* list.sort(key, reverse=True) is stable: the elements come out by descending
\* key, and the elements of one key keep the order they were listed in.
SortKeys(s) == {SortKey(s[i]) : i \in DOMAIN s}

RECURSIVE SortFrom(_, _)
SortFrom(s, keys) ==
    IF keys = {} THEN <<>>
    ELSE LET k == CHOOSE x \in keys : \A y \in keys : y <= x
         IN  SelectSeq(s, LAMBDA j : SortKey(j) = k) \o SortFrom(s, keys \ {k})

SortJobs(s) == SortFrom(s, SortKeys(s))

\* A return statement that does not slice.
SliceAll(s, n) == s

\* Line 110: all_jobs[: criteria.max_results].
Slice(s, n) == SubSeq(s, 1, Min(Len(s), n))

\* What the upstream answers a page request with, and the pages it serves: an
\* empty one, and one with two entries (the older one listed first).
Failures == {"429", "http_error", "request_error"}
Outcomes == {"ok"} \cup Failures
SamplePage == <<Job(1, 1, 3), Job(2, 2, 3)>>
Pages == {<<>>, SamplePage}

\* Line 85: the loop goes on.
WantMore(aj) == Len(aj) < max_results

\* A ceiling test that lets offset 1000 through.
CeilingReachedLate(st) == st > ResultCeiling

\* Line 97: the ceiling stops the loop.
CeilingReached(st) == st >= ResultCeiling

\* A retry loop without an end.
RetryAllowedAlways == TRUE

\* A retry loop that runs once too often.
RetryAllowedExtra == attempt + 1 <= max_retries

\* Line 132: range(max_retries) has another attempt.
RetryAllowed == attempt + 1 < max_retries

\* Lines 100-110: sort, slice, return.
Finish(aj, st) ==
    /\ all_jobs' = SortJobs(aj)
    /\ start' = st
    /\ returned' = TRUE
    /\ result' = Slice(all_jobs', max_results)
    /\ pc' = "done"
    /\ UNCHANGED limiterVars
    /\ UNCHANGED <<attempt, last_exc, raised_cause>>
    /\ UNCHANGED clientObs

\* Lines 86-87 and 124-130: the governor's __aenter__ calls acquire(), then
\* _fetch_page begins and issues its first request.
EnterPage(aj, st) ==
    /\ all_jobs' = aj
    /\ start' = st
    /\ AcquireCall(0)
    /\ attempt' = 0
    /\ last_exc' = "none"
    /\ pc' = IF acq'[0] = "sleeping" THEN "aenter_sleep" ELSE "get"
    /\ paced' = (acq'[0] = "idle")
    /\ page_log' = <<>>
    /\ page_successes' = 0
    /\ page_start_delay' = current_delay
    /\ UNCHANGED <<raised_cause, returned, result, offsets>>

\* Line 85.
LoopTop(aj, st) == IF WantMore(aj) THEN EnterPage(aj, st) ELSE Finish(aj, st)

\* A guard that never sees a missing connection.
NotReadyNever == FALSE

\* Line 79: self._client is None.
NotReady == ~client_open

\* search is called, lines 79-85.
Search ==
    /\ pc = "idle"
    /\ IF NotReady
       THEN /\ pc' = "not_ready"
            /\ UNCHANGED limiterVars
            /\ UNCHANGED <<all_jobs, start, attempt, last_exc, raised_cause,
                           returned, result>>
            /\ UNCHANGED clientObs
       ELSE LoopTop(<<>>, 0)
    /\ UNCHANGED <<client_open, max_retries, max_results, jobs>>
    /\ UNCHANGED fetchFrame

\* The sleep inside the governor's __aenter__ is over: acquire() returns.
AenterWake ==
    /\ pc = "aenter_sleep"
    /\ AcquireWake(0)
    /\ pc' = "get"
    /\ paced' = TRUE
    /\ UNCHANGED <<client_open, max_retries, max_results, all_jobs, start, jobs,
                   attempt, last_exc, raised_cause, returned, result>>
    /\ UNCHANGED <<page_log, page_successes, page_start_delay, offsets>>
    /\ UNCHANGED fetchFrame

\* The end of one pass of the for loop, lines 132 and 164-166: the next attempt,
\* or the error raised from last_exc, which search lets through.
NextAttempt ==
    IF RetryAllowed
    THEN /\ attempt' = attempt + 1
         /\ pc' = "get"
         /\ UNCHANGED raised_cause
    ELSE /\ pc' = "raised"
         /\ raised_cause' = last_exc'
         /\ UNCHANGED attempt

\* Lines 134-162: the upstream answers the request in flight.
\* A failed attempt that backs off as a rate-limit response does.
LogAndBackOff == increase_backoff

\* Lines 149-162: an HTTP error other than 429 and a network error are logged;
\* neither branch calls the rate limiter.
LogAndRetry == UNCHANGED limiterVars

Get(outcome, page) ==
    /\ pc = "get"
    /\ page_log' = Append(page_log, [outcome |-> outcome, paced |-> paced])
    /\ paced' = FALSE
    /\ offsets' = IF offsets # <<>> /\ offsets[Len(offsets)] = start
                  THEN offsets ELSE Append(offsets, start)
    /\ IF outcome = "ok"
       THEN /\ record_success
            /\ page_successes' = page_successes + 1
            /\ jobs' = page
            /\ pc' = "fetched"
            /\ UNCHANGED <<attempt, last_exc, raised_cause>>
       ELSE IF outcome = "429"
       THEN /\ last_exc' = outcome
            /\ increase_backoff
            /\ pc' = "rate_limited"
            /\ UNCHANGED <<attempt, raised_cause, jobs, page_successes>>
       ELSE /\ last_exc' = outcome
            /\ NextAttempt
            /\ LogAndRetry
            /\ UNCHANGED <<jobs, page_successes>>
    /\ UNCHANGED <<client_open, max_retries, max_results, all_jobs, start,
                   returned, result, page_start_delay>>

\* Line 147: acquire() after the backoff; line 148 then ends the pass.
RateLimitedAcquire ==
    /\ pc = "rate_limited"
    /\ AcquireCall(0)
    /\ UNCHANGED last_exc
    /\ IF acq'[0] = "sleeping"
       THEN /\ pc' = "backoff_sleep"
            /\ UNCHANGED <<attempt, raised_cause, paced>>
       ELSE /\ paced' = TRUE
            /\ NextAttempt
    /\ UNCHANGED <<client_open, max_retries, max_results, all_jobs, start, jobs,
                   returned, result>>
    /\ UNCHANGED <<page_log, page_successes, page_start_delay, offsets>>
    /\ UNCHANGED fetchFrame

\* The sleep of line 147 is over; line 148 ends the pass.
BackoffWake ==
    /\ pc = "backoff_sleep"
    /\ AcquireWake(0)
    /\ UNCHANGED last_exc
    /\ paced' = TRUE
    /\ NextAttempt
    /\ UNCHANGED <<client_open, max_retries, max_results, all_jobs, start, jobs,
                   returned, result>>
    /\ UNCHANGED <<page_log, page_successes, page_start_delay, offsets>>
    /\ UNCHANGED fetchFrame

\* A loop that takes an empty page for one more page.
PageExhaustedNever == FALSE

\* Line 89: the page has no records.
PageExhausted == jobs = <<>>

\* Lines 89-98 and back to line 85, with the page _fetch_page returned.
Accumulate ==
    /\ pc = "fetched"
    /\ IF PageExhausted
       THEN Finish(all_jobs, start)
       ELSE IF CeilingReached(start + PAGE_SIZE)
       THEN Finish(all_jobs \o jobs, start + PAGE_SIZE)
       ELSE LoopTop(all_jobs \o jobs, start + PAGE_SIZE)
    /\ UNCHANGED <<client_open, max_retries, max_results, jobs>>
    /\ UNCHANGED fetchFrame

\* Time passes while the search task waits: for the upstream or in a sleep.
FetchTick ==
    /\ pc \in {"get", "aenter_sleep", "backoff_sleep"}
    /\ Tick
    /\ UNCHANGED <<clientVars, clientObs>>
    /\ UNCHANGED fetchFrame

\* An exit that takes the connection for already released.
ClientHeldNever == FALSE

\* Line 66: self._client is set.
ClientHeld == client_open

\* job_service.py line 48 enters the block: __aenter__, lines 45-56, creates the
\* httpx.AsyncClient.
ClientAenter ==
    /\ session = "new"
    /\ pc = "idle"
    /\ client_open' = TRUE
    /\ open_conns' = open_conns + 1
    /\ session' = "entered"
    /\ UNCHANGED sessionFrame

\* The block is left, with nothing searched, after search returned or while the
\* error search raised propagates: __aexit__, lines 66-68.
ClientAexit ==
    /\ session = "entered"
    /\ pc \in {"idle", "done", "raised"}
    /\ IF ClientHeld
       THEN /\ open_conns' = open_conns - 1
            /\ client_open' = FALSE
       ELSE UNCHANGED <<open_conns, client_open>>
    /\ session' = "exited"
    /\ UNCHANGED sessionFrame

\* The settings a client is built with (all valid) and the criteria searched.
\* Searches that stop after a page or two run under every setting; the search
\* that pages up to the ceiling runs under a governor whose delay is zero.
MaxRetries == 3
FetchSettings ==
    {c \in MinDelays \X Multipliers \X MaxDelays \X ResetAfters :
        /\ ValidParams(c[1], c[2], c[3], c[4])
        /\ c[1] <= 1 /\ c[2] = MaxMultiplier /\ c[3] >= 2 /\ c[4] >= 1}
CeilingSettings == {<<0, MaxMultiplier, MaxDelay, 1>>}
FetchInputs ==
    (FetchSettings \X (1..MaxRetries) \X {1, 4})
        \cup (CeilingSettings \X (1..MaxRetries) \X {MaxResultsLimit})

\* LinkedInClient.__init__, lines 33-41, builds the governor from the settings.
FetchInit ==
    /\ NoStorage
    /\ NoMarkup
    /\ constructed = TRUE
    /\ \E in \in FetchInputs :
           /\ min_delay = in[1][1]
           /\ backoff_multiplier = in[1][2]
           /\ max_delay = in[1][3]
           /\ reset_after = in[1][4]
           /\ current_delay = in[1][1]
           /\ max_retries = in[2]
           /\ max_results = in[3]
    /\ consecutive_successes = 0
    /\ elapsed \in {0, ElapsedCap}
    /\ locked = FALSE
    /\ lock_waiters = <<>>
    /\ acq = [p \in Tasks |-> "idle"]
    /\ sleep_left = 0
    /\ just_granted = FALSE
    /\ grants = 0
    /\ last_gap = 0
    /\ wait_delay = 0
    /\ run_len = 0
    /\ run_base = 0
    /\ streak = -1
    /\ backoff_delay = 0
    /\ client_open = FALSE
    /\ session = "new"
    /\ open_conns = 0
    /\ NoCriteriaBuilt
    /\ ParserIdle
    /\ pc = "idle"
    /\ all_jobs = <<>>
    /\ start = 0
    /\ jobs = <<>>
    /\ attempt = 0
    /\ last_exc = "none"
    /\ raised_cause = "none"
    /\ returned = FALSE
    /\ result = <<>>
    /\ page_log = <<>>
    /\ paced = FALSE
    /\ page_successes = 0
    /\ page_start_delay = 0
    /\ offsets = <<>>

Respond ==
    /\ \E outcome \in Outcomes, page \in Pages : Get(outcome, page)
    /\ UNCHANGED fetchFrame

FetchNext ==
    \/ ClientAenter
    \/ ClientAexit
    \/ Search
    \/ AenterWake
    \/ Respond
    \/ RateLimitedAcquire
    \/ BackoffWake
    \/ Accumulate
    \/ FetchTick

SpecFetch == FetchInit /\ [][FetchNext]_vars

\* The same, with what makes a search progress: a request in flight ends (the
\* httpx.AsyncClient is built with a timeout, client.py line 46, so a request
\* without an answer ends as a transport failure), time passes, a sleep that
\* is over returns, and the search task runs when it can.
FetchFairness ==
    /\ WF_vars(Respond)
    /\ WF_vars(FetchTick)
    /\ WF_vars(AenterWake)
    /\ WF_vars(RateLimitedAcquire)
    /\ WF_vars(BackoffWake)
    /\ WF_vars(Accumulate)

\* The searches whose end is checked: under one governor that makes the search
\* wait and backs off, and up to the ceiling under the governor of delay zero.
LiveInputs ==
    ({<<1, MaxMultiplier, MaxDelay, 1>>} \X (1..MaxRetries) \X {1, 4})
        \cup (CeilingSettings \X (1..MaxRetries) \X {MaxResultsLimit})

FetchLiveInit ==
    /\ NoStorage
    /\ NoMarkup
    /\ constructed = TRUE
    /\ \E in \in LiveInputs :
           /\ min_delay = in[1][1]
           /\ backoff_multiplier = in[1][2]
           /\ max_delay = in[1][3]
           /\ reset_after = in[1][4]
           /\ current_delay = in[1][1]
           /\ max_retries = in[2]
           /\ max_results = in[3]
    /\ consecutive_successes = 0
    /\ elapsed = 0
    /\ locked = FALSE
    /\ lock_waiters = <<>>
    /\ acq = [p \in Tasks |-> "idle"]
    /\ sleep_left = 0
    /\ just_granted = FALSE
    /\ grants = 0
    /\ last_gap = 0
    /\ wait_delay = 0
    /\ run_len = 0
    /\ run_base = 0
    /\ streak = -1
    /\ backoff_delay = 0
    /\ client_open = FALSE
    /\ session = "new"
    /\ open_conns = 0
    /\ NoCriteriaBuilt
    /\ ParserIdle
    /\ pc = "idle"
    /\ all_jobs = <<>>
    /\ start = 0
    /\ jobs = <<>>
    /\ attempt = 0
    /\ last_exc = "none"
    /\ raised_cause = "none"
    /\ returned = FALSE
    /\ result = <<>>
    /\ page_log = <<>>
    /\ paced = FALSE
    /\ page_successes = 0
    /\ page_start_delay = 0
    /\ offsets = <<>>

SpecFetchLive == FetchLiveInit /\ [][FetchNext]_vars /\ FetchFairness

\* ------------------------------------------------- what search returns
\* Searches over pages of any content, under the settings of the test suite
\* (request_delay = 0, so that the governor never makes the search wait).
MaxStamp == 2          \* posted timestamps are 1..MaxStamp
MaxWanted == 3         \* largest criteria.max_results of these searches

\* What parse_jobs extracts from a card, as far as search reads it: the
\* identifier and the posted time, which may be missing.  A page holds at most
\* two entries, with distinct identifiers (parse_jobs keeps one per identifier).
EntryIds == {1, 2}
Entries == EntryIds \X ({NoTime} \cup (1..MaxStamp))
EntryPages ==
    {<<>>} \cup {<<e>> : e \in Entries}
           \cup {<<e[1], e[2]>> : e \in {f \in Entries \X Entries : f[1][1] # f[2][1]}}

\* JobPosting's scraped_at defaults to datetime.now(): the records of the page
\* fetched at offset 25 * k are stamped with time k + 1.
ScrapedNow == (start \div PAGE_SIZE) + 1
Scraped(es) == [i \in DOMAIN es |-> Job(es[i][1], es[i][2], ScrapedNow)]

ResultsSettings == <<0, MaxMultiplier, MaxDelay, 1>>

ResultsInit ==
    /\ NoStorage
    /\ NoMarkup
    /\ constructed = TRUE
    /\ min_delay = ResultsSettings[1]
    /\ backoff_multiplier = ResultsSettings[2]
    /\ max_delay = ResultsSettings[3]
    /\ reset_after = ResultsSettings[4]
    /\ current_delay = ResultsSettings[1]
    /\ max_retries = 1
    /\ max_results \in 1..MaxWanted
    /\ consecutive_successes = 0
    /\ elapsed = ElapsedCap
    /\ locked = FALSE
    /\ lock_waiters = <<>>
    /\ acq = [p \in Tasks |-> "idle"]
    /\ sleep_left = 0
    /\ just_granted = FALSE
    /\ grants = 0
    /\ last_gap = 0
    /\ wait_delay = 0
    /\ run_len = 0
    /\ run_base = 0
    /\ streak = -1
    /\ backoff_delay = 0
    /\ client_open = FALSE
    /\ session = "new"
    /\ open_conns = 0
    /\ NoCriteriaBuilt
    /\ ParserIdle
    /\ pc = "idle"
    /\ all_jobs = <<>>
    /\ start = 0
    /\ jobs = <<>>
    /\ attempt = 0
    /\ last_exc = "none"
    /\ raised_cause = "none"
    /\ returned = FALSE
    /\ result = <<>>
    /\ page_log = <<>>
    /\ paced = FALSE
    /\ page_successes = 0
    /\ page_start_delay = 0
    /\ offsets = <<>>

\* The upstream answers with a page that parses into these entries.
RespondParsed ==
    /\ \E es \in EntryPages : Get("ok", Scraped(es))
    /\ UNCHANGED fetchFrame

ResultsNext ==
    \/ ClientAenter
    \/ Search
    \/ RespondParsed
    \/ Accumulate

SpecResults == ResultsInit /\ [][ResultsNext]_vars

\* The key the records are ordered by: the posted timestamp when present, the
\* capture timestamp otherwise.
RecordKey(r) == IF r.posted_at # NoTime THEN r.posted_at ELSE r.scraped_at

\* How often record x occurs in sequence sq.
Count(sq, x) == Cardinality({i \in DOMAIN sq : sq[i] = x})

\* res holds the n greatest records of acc under the key (all of acc when it
\* has no more than n): res is drawn from acc, and no record left out has a
\* greater key than a record of res.
IsTop(res, acc, n) ==
    /\ Len(res) = Min(Len(acc), n)
    /\ \A i \in DOMAIN res : Count(res, res[i]) <= Count(acc, res[i])
    /\ \A i \in DOMAIN acc :
           Count(res, acc[i]) < Count(acc, acc[i]) =>
               \A k \in DOMAIN res : RecordKey(res[k]) >= RecordKey(acc[i])

\* C12: the sequence search returns is ordered most-recent first: of two
\* adjacent records the first has a key at least as great as the second, the
\* key being the posted timestamp when present and the capture timestamp
\* otherwise.
C12_MostRecentFirst ==
    (pc = "done") =>
        \A i \in 1..(Len(result) - 1) :
            RecordKey(result[i]) >= RecordKey(result[i + 1])

\* A record without a posted timestamp is returned between two that have one.
C12_Witness ==
    /\ pc = "done"
    /\ Len(result) = 3
    /\ result[1].posted_at # NoTime
    /\ result[2].posted_at = NoTime
    /\ result[3].posted_at # NoTime
    /\ RecordKey(result[1]) > RecordKey(result[3])

\* C31 as stated: the sequence search returns has no two records with the
\* same identifier, whatever the upstream answers, an upstream that lists the
\* same entry on two pages of one search included.
C31_NoDuplicateIds ==
    (pc = "done") =>
        \A i, j \in DOMAIN result : result[i].id = result[j].id => i = j

\* C13: search never returns more than max_results records, and when it
\* returns, the records returned are the max_results greatest under the sort
\* key among all accumulated records (all of them when there are no more).
C13_TruncatedToMostRecent ==
    /\ [](Len(result) <= max_results)
    /\ [][(pc = "fetched" /\ pc' = "done") =>
            IsTop(result', all_jobs \o jobs, max_results)]_vars

\* max_results = 1 and a page of two entries, the more recent one listed
\* second: only that one is returned.
C13_Witness ==
    /\ pc = "done"
    /\ max_results = 1
    /\ Len(jobs) = 2
    /\ RecordKey(jobs[1]) < RecordKey(jobs[2])
    /\ result = <<jobs[2]>>

\* ------------------------------------------------- claims about the fetch
\* The outcomes of the requests issued for the current page, in order.
PageOutcomes == [i \in DOMAIN page_log |-> page_log[i].outcome]

\* How many requests of the current page failed without being rate-limited.
PageErrors ==
    Cardinality({i \in DOMAIN page_log :
                    page_log[i].outcome \in {"http_error", "request_error"}})

PageRateLimits ==
    Cardinality({i \in DOMAIN page_log : page_log[i].outcome = "429"})

\* C1 as stated: a rate-limit response consumes no retry attempt and is never
\* fatal, so the exhaustion error is raised only when max_retries attempts
\* failed for reasons other than rate-limiting.
C1_RateLimitNotFatal == (pc = "raised") => PageErrors = max_retries

\* C2 as stated: every page request is preceded by an acquire() that completed
\* after the previous request returned, also a retry after an error status or
\* a transport failure.
C2_EveryRequestPaced == \A i \in DOMAIN page_log : page_log[i].paced

\* C3: when max_retries attempts of one page all fail without being
\* rate-limited, exactly max_retries requests were issued for the page, the
\* error raised carries the last failure as its cause, search has returned no
\* records, and the search goes no further.
C3_ExhaustionIsFatal ==
    /\ [](pc = "raised" /\ PageRateLimits = 0 =>
            /\ Len(page_log) = max_retries
            /\ raised_cause = page_log[Len(page_log)].outcome
            /\ ~returned
            /\ result = <<>>)
    /\ [][pc = "raised" => UNCHANGED <<searchVars, clientObs>>]_vars

\* Exhaustion on a later page, after two different failures, with records of
\* an earlier page accumulated.
C3_Witness ==
    /\ pc = "raised"
    /\ PageRateLimits = 0
    /\ all_jobs # <<>>
    /\ Len(page_log) >= 2
    /\ page_log[Len(page_log) - 1].outcome # page_log[Len(page_log)].outcome
    /\ raised_cause = "request_error"

\* C9: one rate-limit response and then a success (max_retries >= 2, recovery
\* threshold > 1): the page fetch succeeds, the delay is min(D * M, C) for the
\* delay D before the episode, and record_success() was called once; whatever
\* failed before it, a page's final success is recorded exactly once.
C9_OneBackoffThenSuccess ==
    /\ (PageOutcomes = <<"429">> /\ max_retries >= 2) => pc # "raised"
    /\ (PageOutcomes = <<"429", "ok">>) =>
           /\ pc \in {"fetched", "done"}
           /\ page_successes = 1
           /\ reset_after > 1 =>
                  current_delay =
                      Min(page_start_delay * backoff_multiplier, max_delay)
    /\ (pc = "fetched") =>
           /\ page_successes = 1
           /\ page_log[Len(page_log)].outcome = "ok"

\* The episode, with a delay that the backoff raised.
C9_Witness ==
    /\ pc = "fetched"
    /\ PageOutcomes = <<"429", "ok">>
    /\ reset_after > 1
    /\ page_start_delay >= 1
    /\ current_delay > page_start_delay

\* C10: pages are requested at offsets 0, 25, 50, ... in this order, the offset
\* growing by 25 with every fetched page; no request is issued at an offset of
\* 1000 or more, and none once max_results records are accumulated.
C10_Pagination ==
    /\ \A i \in DOMAIN offsets :
           /\ offsets[i] = (i - 1) * PAGE_SIZE
           /\ offsets[i] < ResultCeiling
    /\ (pc = "get") =>
           /\ start = IF page_log = <<>> THEN Len(offsets) * PAGE_SIZE
                      ELSE offsets[Len(offsets)]
           /\ start < ResultCeiling
           /\ Len(all_jobs) < max_results

\* The last page below the ceiling is requested.
C10_Witness ==
    /\ pc = "get"
    /\ start = ResultCeiling - PAGE_SIZE
    /\ Len(offsets) >= 2

\* C32: every call to search ends, whatever the upstream answers.  A page is
\* requested at most max_retries times (page_log holds the requests of the
\* current page) and at most ResultCeiling / PAGE_SIZE = 40 pages are requested
\* (offsets holds one offset per page), so at most 40 * max_retries requests
\* are issued; and a search that has begun returns or raises.
MaxPages == ResultCeiling \div PAGE_SIZE
SearchEnded == pc \in {"done", "raised"}
SearchRunning ==
    pc \in {"get", "aenter_sleep", "fetched", "rate_limited", "backoff_sleep"}
C32_SearchTerminates ==
    /\ [](Len(page_log) <= max_retries /\ Len(offsets) <= MaxPages)
    /\ SearchRunning ~> SearchEnded

\* A search returned after it requested all 40 pages, each of them full.
C32_Witness ==
    /\ pc = "done"
    /\ Len(offsets) = MaxPages
    /\ Len(result) = MaxPages * Len(SamplePage)

\* The attempt a step has just made, if it made one.
Attempted == Len(page_log') = Len(page_log) + 1

AttemptOutcome == page_log'[Len(page_log')].outcome

\* C33: an attempt that fails with an HTTP error other than 429 or with a
\* network error leaves the limiter's current delay and its count of
\* consecutive successes as they were; during a fetch the delay grows only in
\* a step that received a 429, and the count grows only in a step that
\* fetched a page.
C33_OtherFailuresLeaveLimiter ==
    [][/\ (Attempted /\ AttemptOutcome \in {"http_error", "request_error"})
            => UNCHANGED <<current_delay, consecutive_successes>>
       /\ current_delay' > current_delay
            => Attempted /\ AttemptOutcome = "429"
       /\ consecutive_successes' > consecutive_successes
            => Attempted /\ AttemptOutcome = "ok"]_vars

\* A page whose attempts saw a 429 and then another failure, with the delay
\* raised by the 429 still in force.
C33_Witness ==
    /\ Len(page_log) >= 2
    /\ page_log[Len(page_log) - 1].outcome = "429"
    /\ page_log[Len(page_log)].outcome \in {"http_error", "request_error"}
    /\ current_delay > min_delay
    /\ consecutive_successes = 0

\* C11: when a successfully fetched page yields zero records, search issues no
\* further page request and returns the records accumulated so far, sorted and
\* sliced; an empty first page gives an empty result, after exactly one request
\* when that request was the one that succeeded.
C11_EmptyPageStops ==
    /\ [][(pc = "fetched" /\ jobs = <<>>) =>
            /\ pc' = "done"
            /\ returned'
            /\ result' = Slice(SortJobs(all_jobs), max_results)
            /\ UNCHANGED <<page_log, offsets>>]_vars
    /\ [][pc = "done" => UNCHANGED <<searchVars, clientObs, limiterVars>>]_vars
    /\ [](pc = "done" /\ jobs = <<>> /\ Len(offsets) = 1 =>
            /\ result = <<>>
            /\ (PageErrors = 0 /\ PageRateLimits = 0) => Len(page_log) = 1)

\* An empty page after a page with records: what was accumulated is returned.
C11_Witness ==
    /\ pc = "done"
    /\ jobs = <<>>
    /\ Len(offsets) = 2
    /\ result # <<>>

\* C14: search on a client that holds no connection, before the session was
\* entered or after it was left, fails at once with the not-ready error: no
\* acquire() is performed, no request is issued, nothing is returned, and the
\* search goes no further.
C14_NotReadyFailsFast ==
    /\ [](pc = "not_ready" =>
            /\ ~returned
            /\ result = <<>>
            /\ page_log = <<>>
            /\ offsets = <<>>
            /\ acq[0] = "idle")
    /\ [][(pc = "idle" /\ ~client_open /\ pc' # "idle") =>
            /\ pc' = "not_ready"
            /\ UNCHANGED <<limiterVars, clientObs>>]_vars
    /\ [][pc = "not_ready" => UNCHANGED <<limiterVars, searchVars, clientObs>>]_vars

\* search was called after the session had been left.
C14_Witness ==
    /\ pc = "not_ready"
    /\ session = "exited"

\* C15: once the session's block has been left, after search returned or
\* while the error it raised propagates, the httpx client is closed and the
\* LinkedInClient holds none; at any time at most one connection is open, and
\* it is the one the LinkedInClient holds.
C15_ConnectionReleased ==
    /\ (session = "exited") => (~client_open /\ open_conns = 0)
    /\ open_conns = (IF client_open THEN 1 ELSE 0)

\* The session was left because the fetch of a page was exhausted.
C15_Witness ==
    /\ session = "exited"
    /\ pc = "raised"
    /\ page_log # <<>>

\* ------------------------------------------------- claims about the governor

\* C4 as stated: under any interleaving with the governor's other operations,
\* an acquisition is granted no less than the current delay (the delay in force
\* when it is granted) after the previous one.
C4_SpacedByCurrentDelay ==
    (just_granted /\ grants = 2) => last_gap >= current_delay

\* C4 amended: acquisitions are serialized (one task at a time is inside lines
\* 41-45, and it holds the lock), and an acquisition is granted no less than the
\* delay its acquirer read at line 43 after the previous one, hence no less than
\* min_delay after it; a backoff applied while the acquirer sleeps does not
\* lengthen that sleep.
C4_SerializedAndSpaced ==
    /\ Cardinality({p \in Tasks : acq[p] = "sleeping"}) <= 1
    /\ (\E p \in Tasks : acq[p] = "sleeping") => locked
    /\ (just_granted /\ grants = 2) =>
           /\ last_gap >= wait_delay
           /\ ValidConfig => last_gap >= min_delay

\* Two grants a positive delay apart, the later one to a task that slept while
\* another task queued for the lock.
C4_Witness ==
    /\ just_granted
    /\ grants = 2
    /\ wait_delay >= 1
    /\ last_gap = wait_delay
    /\ lock_waiters # <<>>

\* C5: for a governor built with valid parameters, after any sequence of
\* acquire(), increase_backoff(), record_success() and reset_backoff() calls,
\* min_delay <= current_delay <= max_delay and current_delay >= 0.
C5_DelayWithinBounds ==
    (constructed /\ ValidConfig) =>
        /\ min_delay <= current_delay
        /\ current_delay <= max_delay
        /\ current_delay >= 0

\* A backoff that the cap cut short, after at least one acquisition.
C5_Witness ==
    /\ constructed
    /\ grants >= 1
    /\ run_len >= 1
    /\ min_delay < max_delay
    /\ current_delay = max_delay
    /\ run_base * Pow(backoff_multiplier, run_len) > max_delay

\* C6 as stated: no governor is constructed from arguments that break one of
\* the four parameter invariants.
C6_InvalidParamsRejected == constructed => ValidConfig

\* C26 as stated: the first acquire() on a newly constructed governor is
\* granted without waiting, whatever min_delay is and whatever the clock reads
\* when the governor is first used: no caller sleeps before the first grant.
C26_FirstAcquireImmediate ==
    (grants = 0 /\ run_len = 0) => \A p \in Tasks : acq[p] # "sleeping"

\* C7: after K consecutive increase_backoff() calls on a governor whose delay
\* was D0, the delay is min(D0 * M^K, C), and the success counter is zero.
C7_BackoffRun ==
    (constructed /\ run_len >= 1) =>
        /\ current_delay =
               Min(run_base * Pow(backoff_multiplier, run_len), max_delay)
        /\ consecutive_successes = 0

\* Two backoffs in a row: the first below the cap, the second cut by it.
C7_Witness ==
    /\ run_len = 2
    /\ run_base >= 1
    /\ run_base * backoff_multiplier < max_delay
    /\ run_base * Pow(backoff_multiplier, 2) > max_delay
    /\ current_delay = max_delay

\* C8: after a backoff, once record_success() was called reset_after times in a
\* row (streak counts them; a backoff restarts it) the delay is min_delay and
\* the counter is zero; before that the delay is the one the backoff left and
\* the counter counts only the successes since the backoff.
C8_Recovery ==
    /\ (streak >= 1 /\ streak >= reset_after) => current_delay = min_delay
    /\ (streak >= 1 /\ (streak = reset_after \/ reset_after = 0)) =>
           consecutive_successes = 0
    /\ (streak >= 0 /\ streak < reset_after) =>
           /\ current_delay = backoff_delay
           /\ consecutive_successes = streak

\* A raised delay recovered by exactly reset_after successes.
C8_Witness ==
    /\ reset_after >= 2
    /\ streak = reset_after
    /\ backoff_delay > min_delay
    /\ current_delay = min_delay

\* ---------------------------------------------------------------- SearchCriteria
\* models/search.py, lines 14-39: the values of the three enumerations.
PAST_24H == "r86400"
PAST_WEEK == "r604800"
PAST_MONTH == "r2592000"
ANY_TIME == ""
TimeFilters == {PAST_24H, PAST_WEEK, PAST_MONTH, ANY_TIME}

ON_SITE == "1"
REMOTE == "2"
HYBRID == "3"
WorkModels == {ON_SITE, REMOTE, HYBRID}

JobTypes == {"F", "P", "C", "I", "T", "V"}

\* A SearchCriteria value, lines 80-93.
Criteria(kw, loc, tf, wm, jt, mr) ==
    [given |-> TRUE, keywords |-> kw, location |-> loc, time_filter |-> tf,
     work_models |-> wm, job_types |-> jt, max_results |-> mr]

\* The elements of a list.
Range(sq) == {sq[i] : i \in DOMAIN sq}

\* ---------------------------------------------------------------- HTMLParser
\* Texts are tuples of characters.  str.lower() on the letters the texts use.
Lower(c) ==
    CASE c = "R" -> "r" [] c = "E" -> "e" [] c = "M" -> "m" [] c = "O" -> "o"
      [] c = "T" -> "t" [] c = "P" -> "p" [] c = "U" -> "u" [] OTHER -> c
ToLower(t) == [i \in DOMAIN t |-> Lower(t[i])]

\* Python's `sub in t`.
Contains(t, sub) ==
    \E k \in 0..(Len(t) - Len(sub)) : SubSeq(t, k + 1, k + Len(sub)) = sub

RemoteWord == <<"r", "e", "m", "o", "t", "e">>
UnknownText == <<"U", "n", "k", "n", "o", "w", "n">>
NoText == <<>>

\* The location texts of the documents parsed: one without the word, one with
\* it in mixed case, and NoText for a card without a location element.
LocationTexts ==
    {<<"P", "a", "r", "i", "s">>,
     <<"E", "U", " ", "R", "e", "M", "O", "T", "E">>,
     NoText}

\* The clock read at line 172, the earliest datetime, and the greatest number
\* int() converts from text (sys.int_max_str_digits).
ParseNow == 3
EarliestTime == 0
IntStrLimit == 8

\* The <time> element of a card: none; a relative text "<n> days ago" without a
\* datetime attribute, n small, too far back for a datetime, or too long for
\* int().
NoTimeElem == [kind |-> "none", n |-> 0]
DaysAgo(n) == [kind |-> "text", n |-> n]
TimeElems ==
    {NoTimeElem, DaysAgo(1), DaysAgo(ParseNow - EarliestTime + 1),
     DaysAgo(IntStrLimit + 1)}

\* A card: the identifier _extract_job_id finds (NoId: none), the text of the
\* location element, whether a recognised remote badge is in it, its <time>.
NoId == 0
Card(i, loc, badge, tm) == [job_id |-> i, location |-> loc, badge |-> badge, time |-> tm]

\* Lines 169-189 for "<n> days ago": int() at line 177 raises ValueError on a
\* number that is too long; `now - timedelta(days=n)` raises OverflowError when
\* the result is before the earliest datetime.
ParseRelativeTime(n) ==
    IF n > IntStrLimit THEN [exc |-> "ValueError", value |-> NoTime]
    ELSE IF ParseNow - n < EarliestTime THEN [exc |-> "OverflowError", value |-> NoTime]
    ELSE [exc |-> "none", value |-> ParseNow - n]

\* Lines 89-96.
PostedAt(card) ==
    IF card.time.kind = "none" THEN [exc |-> "none", value |-> NoTime]
    ELSE ParseRelativeTime(card.time.n)

\* Line 206: criteria and criteria.work_models == [WorkModel.REMOTE].
OnlyRemote(crit) == crit.given /\ crit.work_models = <<REMOTE>>

\* A location test that is case-sensitive.
LocationSaysRemoteExact(location) == Contains(location, RemoteWord)

\* Lines 210-211.
LocationSaysRemote(location) == Contains(ToLower(location), RemoteWord)

\* Lines 205-226.
CheckRemote(card, location, crit) ==
    IF OnlyRemote(crit) THEN TRUE
    ELSE IF LocationSaysRemote(location) THEN TRUE
    ELSE card.badge

\* Line 131: the exceptions _parse_job_card turns into None.
CaughtExceptions == {"ValueError", "AttributeError", "TypeError", "KeyError"}

\* Line 131.
IsCaught(exc) == exc \in CaughtExceptions

\* Lines 62-133 for the card at position k: the record built (field card is
\* the position it was built from, kept to tell records apart by origin), no
\* record, or the exception that leaves the method.
ParseJobCard(card, k, crit) ==
    IF card.job_id = NoId THEN [out |-> "none"]
    ELSE LET location == IF card.location = NoText THEN UnknownText
                         ELSE card.location
             posted == PostedAt(card)
         IN  IF posted.exc # "none"
             THEN IF IsCaught(posted.exc) THEN [out |-> "none"]
                  ELSE [out |-> "raise"]
             ELSE [out |-> "job",
                   job |-> [id |-> card.job_id, location |-> location,
                            posted_at |-> posted.value,
                            is_remote |-> CheckRemote(card, location, crit),
                            card |-> k]]

\* A dedup test that keeps every record.
SeenNever(seen, id) == FALSE

\* Line 43: job.id in seen_ids.
Seen(seen, id) == id \in seen

\* Lines 41-47: the loop over the cards from position k on.
RECURSIVE ParseFrom(_, _, _, _, _)
ParseFrom(cards, k, crit, found, seen) ==
    IF k > Len(cards) THEN [raised |-> FALSE, jobs |-> found]
    ELSE LET r == ParseJobCard(cards[k], k, crit)
         IN  IF r.out = "raise" THEN [raised |-> TRUE, jobs |-> <<>>]
             ELSE IF r.out = "job" /\ ~Seen(seen, r.job.id)
             THEN ParseFrom(cards, k + 1, crit, Append(found, r.job),
                            seen \cup {r.job.id})
             ELSE ParseFrom(cards, k + 1, crit, found, seen)

\* Lines 36-47.
parse_jobs(cards, crit) == ParseFrom(cards, 1, crit, <<>>, {})

\* The documents parsed: cards that differ in what decides the remote flag,
\* parsed under every kind of criteria, and cards that differ in what makes
\* their extraction fail, parsed without criteria.
MaxCards == 3          \* most cards in a document
CardIds == {1, 2}
RemoteCards ==
    {Card(i, loc, b, NoTimeElem) : i \in CardIds, loc \in LocationTexts, b \in BOOLEAN}
BuildCards ==
    {Card(i, <<"P", "a", "r", "i", "s">>, FALSE, tm) : i \in CardIds, tm \in TimeElems}
        \cup {Card(NoId, <<"P", "a", "r", "i", "s">>, FALSE, NoTimeElem)}
DocsOf(cards) == UNION {[1..n -> cards] : n \in 0..MaxCards}
ParseCriteria ==
    {NoCriteria} \cup
    {Criteria("Python", "", PAST_WEEK, wm, <<>>, 100) :
        wm \in {<<>>, <<REMOTE>>, <<HYBRID>>, <<REMOTE, HYBRID>>, <<REMOTE, REMOTE>>}}

ParseInit ==
    /\ NoStorage
    /\ NoMarkup
    /\ \/ doc \in DocsOf(RemoteCards) /\ criteria \in ParseCriteria
       \/ doc \in DocsOf(BuildCards) /\ criteria = NoCriteria
    /\ rejected = FALSE
    /\ params = NoParams
    /\ parse_pc = "idle"
    /\ parsed = <<>>
    /\ session = "new"
    /\ open_conns = 0
    /\ constructed = FALSE
    /\ min_delay = 0
    /\ backoff_multiplier = 1
    /\ max_delay = 0
    /\ reset_after = 0
    /\ current_delay = 0
    /\ consecutive_successes = 0
    /\ elapsed = 0
    /\ locked = FALSE
    /\ lock_waiters = <<>>
    /\ acq = [p \in Tasks |-> "idle"]
    /\ sleep_left = 0
    /\ just_granted = FALSE
    /\ grants = 0
    /\ last_gap = 0
    /\ wait_delay = 0
    /\ run_len = 0
    /\ run_base = 0
    /\ streak = -1
    /\ backoff_delay = 0
    /\ client_open = FALSE
    /\ max_retries = 1
    /\ max_results = 1
    /\ pc = "idle"
    /\ all_jobs = <<>>
    /\ start = 0
    /\ jobs = <<>>
    /\ attempt = 0
    /\ last_exc = "none"
    /\ raised_cause = "none"
    /\ returned = FALSE
    /\ result = <<>>
    /\ page_log = <<>>
    /\ paced = FALSE
    /\ page_successes = 0
    /\ page_start_delay = 0
    /\ offsets = <<>>

parserFrame == <<limiterVars, limiterObs, clientVars, clientObs, sessionVars,
    storageVars, markupVars>>

\* parse_jobs(html, criteria) is called and returns, or an exception leaves it.
ParseJobs ==
    /\ parse_pc = "idle"
    /\ LET r == parse_jobs(doc, criteria)
       IN  /\ parse_pc' = IF r.raised THEN "raised" ELSE "done"
           /\ parsed' = r.jobs
    /\ UNCHANGED <<doc, criteriaVars>>
    /\ UNCHANGED parserFrame

ParseNext == ParseJobs

SpecParse == ParseInit /\ [][ParseNext]_vars

\* ------------------------------------------------- claims about the parser
\* The cards of the document that extract identifier id, in document order.
CardsWith(id) == {k \in DOMAIN doc : doc[k].job_id = id}
FirstOf(ks) == CHOOSE k \in ks : \A j \in ks : k <= j

\* The card's record can be built: it has an identifier and nothing fails.
Extractable(card) == card.job_id # NoId /\ PostedAt(card).exc = "none"

\* The records returned with identifier id.
RecordsWith(id) == {i \in DOMAIN parsed : parsed[i].id = id}

\* Record r carries the field values of the card it is said to be built from.
BuiltFrom(r, k) ==
    /\ r.card = k
    /\ r.id = doc[k].job_id
    /\ r.location = (IF doc[k].location = NoText THEN UnknownText
                     ELSE doc[k].location)

\* The text holds the word "remote", in any mix of cases.
SaysRemoteAnyCase(t) ==
    \E k \in 0..(Len(t) - Len(RemoteWord)) :
        \A j \in DOMAIN RemoteWord :
            t[k + j] \in {RemoteWord[j], <<"R", "E", "M", "O", "T", "E">>[j]}

\* The criteria's work modes, as a set, are exactly {remote}.
RemoteIsTheOnlyMode == criteria.given /\ Range(criteria.work_models) = {REMOTE}

C17_RemoteOnlyTrusted ==
    (parse_pc = "done" /\ RemoteIsTheOnlyMode) =>
        \A i \in DOMAIN parsed : parsed[i].is_remote

\* C18: without criteria, or when the work modes are not exactly {remote}, a
\* record's remote flag is set if and only if its location text holds "remote"
\* in any case or the card it is built from has a recognised remote badge.
C18_RemoteFromLocationOrBadge ==
    (parse_pc = "done" /\ ~RemoteIsTheOnlyMode) =>
        \A i \in DOMAIN parsed :
            parsed[i].is_remote =
                (SaysRemoteAnyCase(parsed[i].location) \/ doc[parsed[i].card].badge)

\* Under criteria with remote and hybrid: a record flagged by a mixed-case
\* location alone and one that is not flagged.
C18_Witness ==
    /\ parse_pc = "done"
    /\ criteria.given
    /\ criteria.work_models = <<REMOTE, HYBRID>>
    /\ \E i \in DOMAIN parsed :
           /\ parsed[i].is_remote
           /\ SaysRemoteAnyCase(parsed[i].location)
           /\ ~doc[parsed[i].card].badge
    /\ \E i \in DOMAIN parsed : ~parsed[i].is_remote

\* C19 as stated: parse_jobs returns normally for every document; a card
\* whose extraction fails is skipped and every card that can be extracted has
\* its identifier among the records returned.
C19_FailuresContained ==
    /\ parse_pc # "raised"
    /\ (parse_pc = "done") =>
           \A k \in DOMAIN doc :
               Extractable(doc[k]) => RecordsWith(doc[k].job_id) # {}

\* ------------------------------------------------- SearchCriteria.to_params
MaxFilters == 2        \* most entries in a work-model or job-type list

ListsOf(vals) == UNION {[1..n -> vals] : n \in 0..MaxFilters}

\* Lines 91-93: max_results has ge=1 and le=1000; no other field is constrained.
Accepts(kw, loc, tf, wm, jt, mr) == mr >= 1 /\ mr <= MaxResultsLimit

\* ",".join(values), lines 107 and 110.
RECURSIVE Join(_)
Join(vs) ==
    IF vs = <<>> THEN ""
    ELSE IF Len(vs) = 1 THEN vs[1]
    ELSE vs[1] \o "," \o Join(Tail(vs))

\* A dict is a set of <<key, value>> pairs with one pair per key; params[k] = v.
SetKey(p, k, v) == {e \in p : e[1] # k} \cup {<<k, v>>}

\* A time-window test that lets every value through.
TimeFilterSetAlways(c) == TRUE

\* Line 103.
TimeFilterSet(c) == c.time_filter # ANY_TIME

\* Lines 96-112.
to_params(c) ==
    LET p0 == SetKey({}, "keywords", c.keywords)
        p1 == IF c.location # "" THEN SetKey(p0, "location", c.location) ELSE p0
        p2 == IF TimeFilterSet(c) THEN SetKey(p1, "f_TPR", c.time_filter) ELSE p1
        p3 == IF c.work_models # <<>>
              THEN SetKey(p2, "f_WT", Join(c.work_models)) ELSE p2
        p4 == IF c.job_types # <<>>
              THEN SetKey(p3, "f_JT", Join(c.job_types)) ELSE p3
    IN  p4

\* The arguments SearchCriteria is constructed with: every combination of the
\* filters with the default result count, and the default filters with result
\* counts at and beyond the limits.
CriteriaInputs ==
    ({"", "Python"} \X {"", "Paris"} \X TimeFilters \X ListsOf(WorkModels)
        \X ListsOf(JobTypes) \X {100})
    \cup ({"Python"} \X {""} \X {PAST_WEEK} \X {<<>>} \X {<<>>}
            \X {0, 1, MaxResultsLimit, MaxResultsLimit + 1})

CriteriaInit ==
    /\ NoStorage
    /\ NoMarkup
    /\ criteria = NoCriteria
    /\ rejected = FALSE
    /\ params = NoParams
    /\ doc = <<>>
    /\ parse_pc = "idle"
    /\ parsed = <<>>
    /\ session = "new"
    /\ open_conns = 0
    /\ constructed = FALSE
    /\ min_delay = 0
    /\ backoff_multiplier = 1
    /\ max_delay = 0
    /\ reset_after = 0
    /\ current_delay = 0
    /\ consecutive_successes = 0
    /\ elapsed = 0
    /\ locked = FALSE
    /\ lock_waiters = <<>>
    /\ acq = [p \in Tasks |-> "idle"]
    /\ sleep_left = 0
    /\ just_granted = FALSE
    /\ grants = 0
    /\ last_gap = 0
    /\ wait_delay = 0
    /\ run_len = 0
    /\ run_base = 0
    /\ streak = -1
    /\ backoff_delay = 0
    /\ client_open = FALSE
    /\ max_retries = 1
    /\ max_results = 1
    /\ pc = "idle"
    /\ all_jobs = <<>>
    /\ start = 0
    /\ jobs = <<>>
    /\ attempt = 0
    /\ last_exc = "none"
    /\ raised_cause = "none"
    /\ returned = FALSE
    /\ result = <<>>
    /\ page_log = <<>>
    /\ paced = FALSE
    /\ page_successes = 0
    /\ page_start_delay = 0
    /\ offsets = <<>>

criteriaFrame == <<limiterVars, limiterObs, clientVars, clientObs, sessionVars,
                   parserVars,
    storageVars, markupVars>>

\* SearchCriteria(...): pydantic validates the fields, lines 80-93.
NewCriteria ==
    /\ criteria = NoCriteria
    /\ ~rejected
    /\ \E in \in CriteriaInputs :
           IF Accepts(in[1], in[2], in[3], in[4], in[5], in[6])
           THEN /\ criteria' = Criteria(in[1], in[2], in[3], in[4], in[5], in[6])
                /\ UNCHANGED rejected
           ELSE /\ rejected' = TRUE
                /\ UNCHANGED criteria
    /\ UNCHANGED params
    /\ UNCHANGED criteriaFrame

\* criteria.to_params(), lines 96-112.
ToParams ==
    /\ criteria.given
    /\ params' = to_params(criteria)
    /\ UNCHANGED <<criteria, rejected>>
    /\ UNCHANGED criteriaFrame

CriteriaNext ==
    \/ NewCriteria
    \/ ToParams

SpecCriteria == CriteriaInit /\ [][CriteriaNext]_vars

\* The keys of a dict, and the value of a key.
Keys(p) == {e[1] : e \in p}
ValueOf(p, k) == (CHOOSE e \in p : e[1] = k)[2]

\* C20: for every criteria with a non-empty keyword string, to_params returns
\* one value per key; the keyword key is present; the location, time-window,
\* work-mode and employment-type keys are present exactly for the dimensions
\* that are set; and no key is mapped to an empty value.
C20_ParamsOmitUnset ==
    (params # NoParams /\ criteria.keywords # "") =>
        /\ \A e, f \in params : e[1] = f[1] => e = f
        /\ "keywords" \in Keys(params)
        /\ Keys(params) =
               {"keywords"}
               \cup (IF criteria.location # "" THEN {"location"} ELSE {})
               \cup (IF criteria.time_filter # ANY_TIME THEN {"f_TPR"} ELSE {})
               \cup (IF criteria.work_models # <<>> THEN {"f_WT"} ELSE {})
               \cup (IF criteria.job_types # <<>> THEN {"f_JT"} ELSE {})
        /\ \A e \in params : e[2] # ""

\* C21 as stated: every criteria that was constructed has a non-empty keyword
\* string and a result count in 1..1000, and a construction that is given an
\* empty keyword or a count outside the range is rejected.
C21_InvalidCriteriaRejected ==
    criteria.given =>
        /\ criteria.keywords # ""
        /\ criteria.max_results >= 1
        /\ criteria.max_results <= MaxResultsLimit

\* Any time, no location, no job types, two work models: only the keyword and
\* the work-model keys are present, the latter joined by a comma.
C20_Witness ==
    /\ params # NoParams
    /\ criteria.keywords # ""
    /\ criteria.time_filter = ANY_TIME
    /\ criteria.location = ""
    /\ Keys(params) = {"keywords", "f_WT"}
    /\ ValueOf(params, "f_WT") = "2,3"

\* ------------------------------------------------------------ SqliteStore
\* storage/sqlite_store.py.  Table jobs has one row per save of an unknown
\* identifier; `id TEXT PRIMARY KEY` (line 32) makes an INSERT of a stored
\* identifier fail.  All the fields of a record other than its identifier
\* (title, company, location, remote flag, ...) are taken together as `content`.
MaxStoreTime == 2
MaxBatch == 2
StoreIds == {1, 2}
Contents == {"a", "b"}
StoreJob(i, c) == [id |-> i, content |-> c]
StoreJobs == {StoreJob(i, c) : i \in StoreIds, c \in Contents} \ {StoreJob(2, "b")}
Batches == UNION {[1..n -> StoreJobs] : n \in 0..MaxBatch}

Row(job, first, last) ==
    [id |-> job.id, content |-> job.content,
     first_seen_at |-> first, last_seen_at |-> last]
IdsOf(rs) == {r.id : r \in rs}
IdsIn(batch) == {batch[i].id : i \in DOMAIN batch}

\* SELECT id FROM jobs WHERE id = ?, and fetchone(): lines 81-87.
ExistingNever(rs, id) == FALSE
Existing(rs, id) == \E r \in rs : r.id = id

\* An update that stamps the row as a first sighting too.
UpdateBothSeen(rs, id, now) ==
    {IF r.id = id THEN [r EXCEPT !.last_seen_at = now, !.first_seen_at = now]
     ELSE r : r \in rs}

\* UPDATE jobs SET last_seen_at = ? WHERE id = ?, lines 89-92.
UpdateLastSeen(rs, id, now) ==
    {IF r.id = id THEN [r EXCEPT !.last_seen_at = now] ELSE r : r \in rs}

\* INSERT INTO jobs ..., lines 96-120: the row carries the record's fields and
\* now as both first_seen_at and last_seen_at.  The primary key rejects it when
\* the identifier is stored.
PrimaryKeyTaken(rs, id) == id \in IdsOf(rs)
InsertRow(rs, job, now) == rs \cup {Row(job, now, now)}

\* The loop of save, lines 79-121, from job k on.
RECURSIVE SaveFrom(_, _, _, _)
SaveFrom(st, batch, k, now) ==
    IF k > Len(batch) THEN st
    ELSE LET job == batch[k]
         IN  IF Existing(st.rows, job.id)
             THEN SaveFrom([st EXCEPT !.rows = UpdateLastSeen(@, job.id, now),
                                      !.updated_count = @ + 1],
                           batch, k + 1, now)
             ELSE IF PrimaryKeyTaken(st.rows, job.id)
             THEN [st EXCEPT !.raised = TRUE]
             ELSE SaveFrom([st EXCEPT !.rows = InsertRow(@, job, now),
                                      !.new_count = @ + 1],
                           batch, k + 1, now)

\* save(jobs), lines 64-125.  The connection's context manager commits when
\* the block ends and rolls back when an exception leaves it.
save(rs, batch, now) ==
    LET st == SaveFrom([rows |-> rs, new_count |-> 0, updated_count |-> 0,
                        raised |-> FALSE], batch, 1, now)
    IN  IF st.raised
        THEN [rows |-> rs, raised |-> TRUE, counts |-> <<0, 0>>]
        ELSE [rows |-> st.rows, raised |-> FALSE,
              counts |-> <<st.new_count, st.updated_count>>]

\* SELECT id FROM jobs WHERE id IN (...), lines 142-150.
ExistingIdsNone(rs, batch) == {}
ExistingIds(rs, batch) == {r.id : r \in {x \in rs : x.id \in IdsIn(batch)}}

\* get_new_jobs(jobs), lines 127-152.
get_new_jobs(rs, batch) ==
    IF batch = <<>> THEN <<>>
    ELSE LET existing_ids == ExistingIds(rs, batch)
         IN  SelectSeq(batch, LAMBDA job : job.id \notin existing_ids)

\* count(), lines 217-223.
count(rs) == Cardinality(rs)

\* ------------------------------------------------------------- JobService
\* services/job_service.py.  The fetch of line 49 is the client's search: it
\* returns a list of records or raises.

\* `if save_to_db and jobs`, line 51.
ShouldSaveAlways(save_to_db, fetched) == TRUE
ShouldSave(save_to_db, fetched) == save_to_db /\ fetched # <<>>

\* search(criteria, save_to_db), lines 34-54.
search(rs, fetched, fetch_raised, save_to_db, now) ==
    IF fetch_raised
    THEN [rows |-> rs, raised |-> TRUE, jobs |-> <<>>, saved |-> FALSE]
    ELSE IF ShouldSave(save_to_db, fetched)
    THEN LET s == save(rs, fetched, now)
         IN  [rows |-> s.rows, raised |-> s.raised,
              jobs |-> IF s.raised THEN <<>> ELSE fetched, saved |-> TRUE]
    ELSE [rows |-> rs, raised |-> FALSE, jobs |-> fetched, saved |-> FALSE]

\* run_alert(alert, only_new, save_to_db), lines 56-80.
run_alert(rs, enabled, fetched, fetch_raised, only_new, save_to_db, now) ==
    IF ~enabled
    THEN [rows |-> rs, raised |-> FALSE, jobs |-> <<>>, saved |-> FALSE]
    ELSE LET s == search(rs, fetched, fetch_raised, save_to_db, now)
         IN  IF ~s.raised /\ only_new
             THEN [s EXCEPT !.jobs = get_new_jobs(s.rows, s.jobs)]
             ELSE s

\* The observation of a call: its name, the batch given or fetched, the flags,
\* whether it raised, the list it returned and the counts save returned.
StoreOp(op, batch, enabled, only_new, save_to_db, raised, ret, counts) ==
    [op |-> op, jobs |-> batch, enabled |-> enabled, only_new |-> only_new,
     save_to_db |-> save_to_db, raised |-> raised, ret |-> ret,
     counts |-> counts]

\* A store and a service over it, the database empty.
StoreInit ==
    /\ rows = {}
    /\ store_clock = 0
    /\ store_op = NoOp
    /\ json_files = {}
    /\ json_op = NoOp
    /\ json_saved = NoOp
    /\ alerts_file = NoFile
    /\ alerts_dir = NoFile
    /\ alert_op = NoOp
    /\ id_card = NoCard
    /\ id_op = NoOp
    /\ time_text = <<>>
    /\ time_op = NoOp
    /\ criteria = NoCriteria
    /\ rejected = FALSE
    /\ params = NoParams
    /\ doc = <<>>
    /\ parse_pc = "idle"
    /\ parsed = <<>>
    /\ session = "new"
    /\ open_conns = 0
    /\ constructed = FALSE
    /\ min_delay = 0
    /\ backoff_multiplier = 1
    /\ max_delay = 0
    /\ reset_after = 0
    /\ current_delay = 0
    /\ consecutive_successes = 0
    /\ elapsed = 0
    /\ locked = FALSE
    /\ lock_waiters = <<>>
    /\ acq = [p \in Tasks |-> "idle"]
    /\ sleep_left = 0
    /\ just_granted = FALSE
    /\ grants = 0
    /\ last_gap = 0
    /\ wait_delay = 0
    /\ run_len = 0
    /\ run_base = 0
    /\ streak = -1
    /\ backoff_delay = 0
    /\ client_open = FALSE
    /\ max_retries = 1
    /\ max_results = 1
    /\ pc = "idle"
    /\ all_jobs = <<>>
    /\ start = 0
    /\ jobs = <<>>
    /\ attempt = 0
    /\ last_exc = "none"
    /\ raised_cause = "none"
    /\ returned = FALSE
    /\ result = <<>>
    /\ page_log = <<>>
    /\ paced = FALSE
    /\ page_successes = 0
    /\ page_start_delay = 0
    /\ offsets = <<>>

storeFrame == <<limiterVars, limiterObs, clientVars, clientObs, sessionVars,
                criteriaVars, parserVars, jsonVars, alertVars, markupVars>>

\* datetime.now() of line 76: the clock of the store, which the calls read.
StoreNow == store_clock

\* SqliteStore.save(batch) is called.
StoreSave ==
    /\ \E batch \in Batches :
           LET s == save(rows, batch, StoreNow)
           IN  /\ rows' = s.rows
               /\ store_op' = StoreOp("save", batch, TRUE, FALSE, TRUE,
                                      s.raised, <<>>, s.counts)
    /\ UNCHANGED store_clock
    /\ UNCHANGED storeFrame

\* SqliteStore.get_new_jobs(batch) is called.
StoreGetNewJobs ==
    /\ \E batch \in Batches :
           store_op' = StoreOp("get_new_jobs", batch, TRUE, FALSE, FALSE,
                               FALSE, get_new_jobs(rows, batch), <<0, 0>>)
    /\ UNCHANGED <<rows, store_clock>>
    /\ UNCHANGED storeFrame

\* Time passes between two calls.
StoreTick ==
    /\ store_clock < MaxStoreTime
    /\ store_clock' = store_clock + 1
    /\ UNCHANGED <<rows, store_op>>
    /\ UNCHANGED storeFrame

StoreNext ==
    \/ StoreSave
    \/ StoreGetNewJobs
    \/ StoreTick

SpecStore == StoreInit /\ [][StoreNext]_vars

\* What the fetch of line 49 can do: raise, or return any list of records.
FetchRaised == [raised |-> TRUE, jobs |-> <<>>]
FetchOutcomes == {FetchRaised} \cup {[raised |-> FALSE, jobs |-> b] : b \in Batches}

\* JobService.search(criteria, save_to_db) is called.
ServiceSearch ==
    /\ \E f \in FetchOutcomes, save_to_db \in BOOLEAN :
           LET s == search(rows, f.jobs, f.raised, save_to_db, StoreNow)
           IN  /\ rows' = s.rows
               /\ store_op' = StoreOp("search", f.jobs, TRUE, FALSE, save_to_db,
                                      s.raised, s.jobs, <<0, 0>>)
    /\ UNCHANGED store_clock
    /\ UNCHANGED storeFrame

\* JobService.run_alert(alert, only_new, save_to_db) is called; a disabled
\* alert fetches nothing.
RunAlert ==
    /\ \E enabled \in BOOLEAN, only_new \in BOOLEAN, save_to_db \in BOOLEAN :
       \E f \in IF enabled THEN FetchOutcomes ELSE {[raised |-> FALSE, jobs |-> <<>>]} :
           LET s == run_alert(rows, enabled, f.jobs, f.raised, only_new,
                              save_to_db, StoreNow)
           IN  /\ rows' = s.rows
               /\ store_op' = StoreOp("run_alert", f.jobs, enabled, only_new,
                                      save_to_db, s.raised, s.jobs, <<0, 0>>)
    /\ UNCHANGED store_clock
    /\ UNCHANGED storeFrame

ServiceNext ==
    \/ ServiceSearch
    \/ RunAlert

SpecService == StoreInit /\ [][ServiceNext]_vars

\* -------------------------------- claims about the store and the service
\* The records of a batch whose identifier is not among ids, in batch order.
Unknown(batch, ids) == SelectSeq(batch, LAMBDA job : job.id \notin ids)

\* C22 as stated: run_alert with only_new=True on an enabled alert returns
\* exactly the fetched records whose identifier was not stored before the run,
\* in fetch order, also with save_to_db=True, and then every fetched record is
\* stored after the run.
C22_OnlyNewReturnsNewJobs ==
    [][(/\ store_op'.op = "run_alert"
        /\ store_op'.enabled
        /\ store_op'.only_new
        /\ ~store_op'.raised)
       => /\ store_op'.ret = Unknown(store_op'.jobs, IdsOf(rows))
          /\ store_op'.save_to_db => IdsIn(store_op'.jobs) \subseteq IdsOf(rows')
      ]_vars

\* C23: save(batch) returns (new, updated) with new + updated = len(batch) and
\* new the number of distinct identifiers of the batch not stored before; after
\* it the store has exactly one row per identifier, the identifiers stored are
\* the old ones and the batch's, and count() has grown by new; a batch whose
\* identifiers are all stored (a batch saved a second time) returns
\* (0, len(batch)) and leaves count() unchanged.
C23_SaveUpserts ==
    [][(store_op'.op = "save" /\ ~StoreTick)
       => LET batch == store_op'.jobs
              new == Cardinality(IdsIn(batch) \ IdsOf(rows))
          IN  /\ ~store_op'.raised
              /\ store_op'.counts = <<new, Len(batch) - new>>
              /\ IdsOf(rows') = IdsOf(rows) \cup IdsIn(batch)
              /\ \A r1, r2 \in rows' : r1.id = r2.id => r1 = r2
              /\ count(rows') = count(rows) + new
              /\ IdsIn(batch) \subseteq IdsOf(rows)
                 => /\ store_op'.counts = <<0, Len(batch)>>
                    /\ count(rows') = count(rows)
      ]_vars

\* A batch of two records with the same unknown identifier was saved into a
\* store that held another identifier: one insert, one update.
C23_Witness ==
    /\ store_op.op = "save"
    /\ store_op.counts = <<1, 1>>
    /\ Len(store_op.jobs) = 2
    /\ store_op.jobs[1].id = store_op.jobs[2].id
    /\ count(rows) = 2

\* The stored row of an identifier.
RowOf(rs, id) == CHOOSE r \in rs : r.id = id

\* C34: save() of a record whose identifier is stored changes that row's
\* last_seen_at only, to the time of the save: the row keeps its first_seen_at
\* and the fields of the record first saved under the identifier, whatever
\* fields the record saved now carries; the rows of identifiers that are not
\* in the batch are unchanged.
C34_ResaveTouchesLastSeenOnly ==
    [][(store_op'.op = "save" /\ ~StoreTick)
       => \A r \in rows :
              /\ r.id \in IdsOf(rows')
              /\ IF r.id \in IdsIn(store_op'.jobs)
                 THEN RowOf(rows', r.id) = [r EXCEPT !.last_seen_at = store_clock]
                 ELSE r \in rows'
      ]_vars

\* The record of identifier 1 was first saved with one content and saved
\* again, later, with another: the row still has the first content and the
\* first first_seen_at, and a later last_seen_at.
C34_Witness ==
    /\ store_op.op = "save"
    /\ \E k \in DOMAIN store_op.jobs :
           /\ store_op.jobs[k].id = 1
           /\ Existing(rows, 1)
           /\ store_op.jobs[k].content # RowOf(rows, 1).content
    /\ Existing(rows, 1)
    /\ RowOf(rows, 1).first_seen_at < RowOf(rows, 1).last_seen_at

\* C24: get_new_jobs(batch) returns exactly the records of the batch whose
\* identifier is not stored, in batch order, and leaves the store as it was;
\* an empty batch gives an empty list.
C24_NewJobsAreTheUnknown ==
    [][(store_op'.op = "get_new_jobs" /\ ~StoreTick)
       => /\ store_op'.ret = Unknown(store_op'.jobs, IdsOf(rows))
          /\ store_op'.jobs = <<>> => store_op'.ret = <<>>
          /\ rows' = rows
      ]_vars

\* A batch of a stored and an unknown record was filtered to the unknown one.
C24_Witness ==
    /\ store_op.op = "get_new_jobs"
    /\ Len(store_op.jobs) = 2
    /\ store_op.jobs[1].id \in IdsOf(rows)
    /\ Len(store_op.ret) = 1
    /\ store_op.ret[1] = store_op.jobs[2]

\* C25: search changes the store only by saving the records it returns, and
\* only when save_to_db is true: then every returned record is stored and the
\* rows of other identifiers are as before; with save_to_db false, or when the
\* fetch raises, the store is unchanged.
C25_SearchSavesOnlyOnRequest ==
    [][store_op'.op = "search"
       => /\ (store_op'.raised \/ ~store_op'.save_to_db) => rows' = rows
          /\ (~store_op'.raised /\ store_op'.save_to_db)
             => /\ IdsOf(rows') = IdsOf(rows) \cup IdsIn(store_op'.ret)
                /\ \A r \in rows : r.id \notin IdsIn(store_op'.ret) => r \in rows'
      ]_vars

\* A search that returned two records and saved them.
C25_Witness ==
    /\ store_op.op = "search"
    /\ store_op.save_to_db
    /\ ~store_op.raised
    /\ Len(store_op.ret) = 2
    /\ IdsIn(store_op.ret) = {1, 2}
    /\ IdsOf(rows) = {1, 2}

\* -------------------------------------------------------------- JsonStore
\* storage/json_store.py and JobPosting.to_dict / from_dict (models/job.py).
\* An optional string (str | None in Python, a string or null in JSON) is
\* None or Some(text); a file name is the sequence of its dot-separated parts.
MaxExport == 2
None == <<>>
Some(v) == <<v>>
OptionalTexts == {None, Some(""), Some("text")}

\* A JobPosting: of the three optional strings, which from_dict all treats
\* alike (lines 101-108), description_snippet stands for each.
JsonJob(i, posted, snippet, remote, scraped) ==
    [id |-> i, posted_at |-> posted, description_snippet |-> snippet,
     is_remote |-> remote, scraped_at |-> scraped]
JsonJobs ==
    {JsonJob(1, posted, snippet, remote, 2) :
        posted \in {NoTime, 1}, snippet \in OptionalTexts, remote \in BOOLEAN}
Exports == UNION {[1..n -> JsonJobs] : n \in 0..MaxExport}
JsonNames == {<<"jobs">>, <<"jobs", "json">>}

\* datetime.isoformat() and datetime.fromisoformat(): a time is written as a
\* non-empty text, and read back from it.
Stamps == 0..2
IsoFormat(t) == "T" \o ToString(t)
FromIsoFormat(text) == CHOOSE t \in Stamps : IsoFormat(t) = text

\* Python's truth value of a JSON value: null and "" are false.
Truthy(v) == v # None /\ v # Some("")

\* JobPosting.to_dict, lines 66-81: a datetime is always true.
to_dict(job) ==
    [id |-> job.id,
     posted_at |-> IF job.posted_at # NoTime
                   THEN Some(IsoFormat(job.posted_at)) ELSE None,
     description_snippet |-> job.description_snippet,
     is_remote |-> job.is_remote,
     scraped_at |-> Some(IsoFormat(job.scraped_at))]

\* _parse_bool, lines 13-38, of the boolean that json.loads gives.
ParseBool(value) == value

\* JobPosting.from_dict, lines 83-110.
from_dict(data) ==
    JsonJob(data.id,
            IF Truthy(data.posted_at)
            THEN FromIsoFormat(data.posted_at[1]) ELSE NoTime,
            IF Truthy(data.description_snippet)
            THEN data.description_snippet ELSE None,
            ParseBool(data.is_remote),
            FromIsoFormat(data.scraped_at[1]))

\* The envelope save writes, lines 37-40.
Envelope(batch) ==
    [count |-> Len(batch), jobs |-> [i \in DOMAIN batch |-> to_dict(batch[i])]]

\* f"{filename}.json", line 36, and filename.endswith(".json"), lines 59-60.
WithJson(filename) == Append(filename, "json")
EndsWithJson(filename) ==
    Len(filename) >= 2 /\ filename[Len(filename)] = "json"
LoadPath(filename) ==
    IF ~EndsWithJson(filename) THEN WithJson(filename) ELSE filename

WriteFile(files, path, content) ==
    {f \in files : f[1] # path} \cup {<<path, content>>}
FileExists(files, path) == \E f \in files : f[1] = path
ReadFile(files, path) == (CHOOSE f \in files : f[1] = path)[2]

\* JsonStore.load(filename), lines 49-67.
load(files, filename) ==
    LET file_path == LoadPath(filename)
    IN  IF ~FileExists(files, file_path) THEN <<>>
        ELSE LET data == ReadFile(files, file_path)
             IN  [i \in DOMAIN data.jobs |-> from_dict(data.jobs[i])]

\* An empty output directory.
JsonInit ==
    /\ json_files = {}
    /\ json_op = NoOp
    /\ json_saved = NoOp
    /\ rows = {}
    /\ store_clock = 0
    /\ store_op = NoOp
    /\ alerts_file = NoFile
    /\ alerts_dir = NoFile
    /\ alert_op = NoOp
    /\ id_card = NoCard
    /\ id_op = NoOp
    /\ time_text = <<>>
    /\ time_op = NoOp
    /\ criteria = NoCriteria
    /\ rejected = FALSE
    /\ params = NoParams
    /\ doc = <<>>
    /\ parse_pc = "idle"
    /\ parsed = <<>>
    /\ session = "new"
    /\ open_conns = 0
    /\ constructed = FALSE
    /\ min_delay = 0
    /\ backoff_multiplier = 1
    /\ max_delay = 0
    /\ reset_after = 0
    /\ current_delay = 0
    /\ consecutive_successes = 0
    /\ elapsed = 0
    /\ locked = FALSE
    /\ lock_waiters = <<>>
    /\ acq = [p \in Tasks |-> "idle"]
    /\ sleep_left = 0
    /\ just_granted = FALSE
    /\ grants = 0
    /\ last_gap = 0
    /\ wait_delay = 0
    /\ run_len = 0
    /\ run_base = 0
    /\ streak = -1
    /\ backoff_delay = 0
    /\ client_open = FALSE
    /\ max_retries = 1
    /\ max_results = 1
    /\ pc = "idle"
    /\ all_jobs = <<>>
    /\ start = 0
    /\ jobs = <<>>
    /\ attempt = 0
    /\ last_exc = "none"
    /\ raised_cause = "none"
    /\ returned = FALSE
    /\ result = <<>>
    /\ page_log = <<>>
    /\ paced = FALSE
    /\ page_successes = 0
    /\ page_start_delay = 0
    /\ offsets = <<>>

jsonFrame == <<limiterVars, limiterObs, clientVars, clientObs, sessionVars,
               criteriaVars, parserVars, storeVars, alertVars, markupVars>>

\* JsonStore.save(jobs, filename), lines 23-47: the first export into the
\* directory.
JsonSave ==
    /\ json_saved = NoOp
    /\ \E batch \in Exports, filename \in JsonNames :
           /\ json_files' = WriteFile(json_files, WithJson(filename),
                                      Envelope(batch))
           /\ json_saved' = [op |-> "save", name |-> filename, jobs |-> batch]
           /\ json_op' = [op |-> "save", name |-> filename,
                          ret |-> WithJson(filename)]
    /\ UNCHANGED jsonFrame

\* JsonStore.load(filename) is called.
JsonLoad ==
    /\ \E filename \in JsonNames :
           json_op' = [op |-> "load", name |-> filename,
                       ret |-> load(json_files, filename)]
    /\ UNCHANGED <<json_files, json_saved>>
    /\ UNCHANGED jsonFrame

JsonNext ==
    \/ JsonSave
    \/ JsonLoad

SpecJson == JsonInit /\ [][JsonNext]_vars

\* C27 as stated: save followed by load of the same name returns records equal
\* to the saved ones field by field, optional fields and the remote flag
\* included, in the same order, and the envelope written has the number of
\* records as its count.
C27_JsonRoundTrip ==
    /\ (json_op.op = "load" /\ json_saved # NoOp /\ json_op.name = json_saved.name)
       => json_op.ret = json_saved.jobs
    /\ json_saved # NoOp
       => \A f \in json_files : f[2].count = Len(json_saved.jobs)

\* ----------------------------------------------------------- AlertService
\* services/alert_service.py over AlertsConfig and SavedAlert
\* (models/search.py).  The alerts file holds the YAML that to_yaml writes: a
\* list of mappings in which every enum is written by its lowercase name.
TimeFilterNames ==
    {<<PAST_24H, "past_24h">>, <<PAST_WEEK, "past_week">>,
     <<PAST_MONTH, "past_month">>, <<ANY_TIME, "any_time">>}
WorkModelNames ==
    {<<ON_SITE, "on_site">>, <<REMOTE, "remote">>, <<HYBRID, "hybrid">>}
JobTypeNames ==
    {<<"F", "full_time">>, <<"P", "part_time">>, <<"C", "contract">>,
     <<"I", "internship">>, <<"T", "temporary">>, <<"V", "volunteer">>}

\* _serialize_enum, lines 42-45: the lowercase name of the member.
SerializeEnum(names, value) == (CHOOSE e \in names : e[1] = value)[2]

\* _deserialize_time_filter / _work_model / _job_type, lines 48-72: the member
\* of that name, whatever its case, and otherwise the member of that value.
DeserializeEnum(names, text) ==
    IF \E e \in names : e[2] = text
    THEN (CHOOSE e \in names : e[2] = text)[1]
    ELSE text

SavedAlert(name, crit, enabled) ==
    [name |-> name, criteria |-> crit, enabled |-> enabled]

\* The mapping AlertsConfig.to_yaml writes for one alert, lines 210-225.
AlertToYaml(alert) ==
    [name |-> alert.name,
     enabled |-> alert.enabled,
     criteria |->
        [keywords |-> alert.criteria.keywords,
         location |-> alert.criteria.location,
         time_filter |-> SerializeEnum(TimeFilterNames, alert.criteria.time_filter),
         work_models |-> [i \in DOMAIN alert.criteria.work_models |->
                            SerializeEnum(WorkModelNames, alert.criteria.work_models[i])],
         job_types |-> [i \in DOMAIN alert.criteria.job_types |->
                            SerializeEnum(JobTypeNames, alert.criteria.job_types[i])],
         max_results |-> alert.criteria.max_results]]

\* The alert AlertsConfig.from_yaml builds from one mapping, lines 254-276.
AlertFromYaml(data) ==
    SavedAlert(data.name,
               Criteria(data.criteria.keywords,
                        data.criteria.location,
                        DeserializeEnum(TimeFilterNames, data.criteria.time_filter),
                        [i \in DOMAIN data.criteria.work_models |->
                            DeserializeEnum(WorkModelNames, data.criteria.work_models[i])],
                        [i \in DOMAIN data.criteria.job_types |->
                            DeserializeEnum(JobTypeNames, data.criteria.job_types[i])],
                        data.criteria.max_results),
               data.enabled)

\* AlertsConfig.from_file, lines 280-285, and save, lines 287-289.
AlertsFile(alerts) ==
    [exists |-> TRUE, alerts |-> [i \in DOMAIN alerts |-> AlertToYaml(alerts[i])]]
from_file(file) ==
    IF ~file.exists THEN <<>>
    ELSE [i \in DOMAIN file.alerts |-> AlertFromYaml(file.alerts[i])]

\* AlertsConfig.get_alert, lines 291-297: the first alert of that name.
NamesOf(alerts) == {alerts[i].name : i \in DOMAIN alerts}
get_alert(alerts, name) ==
    IF name \notin NamesOf(alerts) THEN None
    ELSE Some(alerts[CHOOSE i \in DOMAIN alerts :
                        /\ alerts[i].name = name
                        /\ \A j \in DOMAIN alerts : alerts[j].name = name => i <= j])

\* AlertsConfig.add_alert, lines 299-305.
NameTakenNever(alerts, name) == FALSE
NameTaken(alerts, name) == \E i \in DOMAIN alerts : alerts[i].name = name
add_alert_unchecked(alerts, alert) ==
    [raised |-> FALSE, alerts |-> Append(alerts, alert)]
add_alert(alerts, alert) ==
    IF NameTaken(alerts, alert.name)
    THEN [raised |-> TRUE, alerts |-> alerts]
    ELSE [raised |-> FALSE, alerts |-> Append(alerts, alert)]

\* alert.model_copy(update=updates), line 315: updates has the key enabled,
\* the key criteria, both or none.
ModelCopy(alert, updates) ==
    [alert EXCEPT
        !.enabled = IF updates.enabled # None THEN updates.enabled[1] ELSE @,
        !.criteria = IF updates.criteria # None THEN updates.criteria[1] ELSE @]

\* AlertsConfig.update_alert, lines 307-319.
config_update_alert(alerts, name, updates) ==
    IF get_alert(alerts, name) = None
    THEN [raised |-> TRUE, alerts |-> alerts]
    ELSE LET updated_alert == ModelCopy(get_alert(alerts, name)[1], updates)
         IN  [raised |-> FALSE,
              alerts |-> [i \in DOMAIN alerts |->
                            IF alerts[i].name = name THEN updated_alert
                            ELSE alerts[i]]]

\* AlertsConfig.remove_alert, lines 321-328.
remove_alert(alerts, name) ==
    IF ~\E i \in DOMAIN alerts : alerts[i].name = name
    THEN [raised |-> TRUE, alerts |-> alerts]
    ELSE [raised |-> FALSE,
          alerts |-> SelectSeq(alerts, LAMBDA a : a.name # name)]

\* AlertService.create_alert, lines 77-122.  SearchCriteria(...) validates
\* before the file is read.
create_alert(file, name, kw, loc, tf, wm, jt, mr, enabled) ==
    IF ~Accepts(kw, loc, tf, wm, jt, mr)
    THEN [file |-> file, raised |-> TRUE, ret |-> None]
    ELSE LET alert == SavedAlert(name, Criteria(kw, loc, tf, wm, jt, mr), enabled)
             added == add_alert(from_file(file), alert)
         IN  IF added.raised
             THEN [file |-> file, raised |-> TRUE, ret |-> None]
             ELSE [file |-> AlertsFile(added.alerts), raised |-> FALSE,
                   ret |-> Some(alert)]

\* `x if x is not None else old`, lines 156-157.
MergeIfTrue(given, old) == IF given # None /\ given # Some("") THEN given[1] ELSE old
Merge(given, old) == IF given # None THEN given[1] ELSE old

\* AlertService.update_alert, lines 124-174.
update_alert(file, name, enabled, keywords, location) ==
    LET config == from_file(file)
        existing == get_alert(config, name)
    IN  IF existing = None
        THEN [file |-> file, raised |-> FALSE, ret |-> None]
        ELSE LET old == existing[1].criteria
                 new_criteria ==
                    Criteria(Merge(keywords, old.keywords),
                             Merge(location, old.location),
                             old.time_filter, old.work_models, old.job_types,
                             old.max_results)
                 updates ==
                    [enabled |-> enabled,
                     criteria |-> IF keywords # None \/ location # None
                                  THEN Some(new_criteria) ELSE None]
                 new_config == config_update_alert(config, name, updates)
             IN  IF new_config.raised
                 THEN [file |-> file, raised |-> FALSE, ret |-> None]
                 ELSE [file |-> AlertsFile(new_config.alerts), raised |-> FALSE,
                       ret |-> get_alert(new_config.alerts, name)]

\* AlertService.delete_alert, lines 176-195.
delete_alert(file, name) ==
    LET config == from_file(file)
    IN  IF get_alert(config, name) = None
        THEN [file |-> file, raised |-> FALSE, ret |-> FALSE]
        ELSE LET new_config == remove_alert(config, name)
             IN  IF new_config.raised
                 THEN [file |-> file, raised |-> FALSE, ret |-> FALSE]
                 ELSE [file |-> AlertsFile(new_config.alerts), raised |-> FALSE,
                       ret |-> TRUE]

\* The calls made: two names, and for create two valid settings of all the
\* fields and one with a result count out of range.
AlertNames == {"a", "b"}
CreateInputs ==
    {<<"Python", "", PAST_WEEK, <<>>, <<>>, 100, TRUE>>,
     <<"Go", "Paris", ANY_TIME, <<REMOTE, HYBRID>>, <<"F">>, 10, FALSE>>,
     <<"Go", "", PAST_WEEK, <<>>, <<>>, 0, TRUE>>}
UpdateEnabled == {None, Some(TRUE), Some(FALSE)}
UpdateKeywords == {None, Some("Rust")}
UpdateLocations == {None, Some("")}

\* The observation of a call: its name, its arguments, whether it raised and
\* what it returned.
AlertOp(op, name, args, raised, ret) ==
    [op |-> op, name |-> name, args |-> args, raised |-> raised, ret |-> ret]

\* No alerts file yet.
AlertsInit ==
    /\ alerts_file = NoFile
    /\ alerts_dir = NoFile
    /\ alert_op = NoOp
    /\ id_card = NoCard
    /\ id_op = NoOp
    /\ time_text = <<>>
    /\ time_op = NoOp
    /\ json_files = {}
    /\ json_op = NoOp
    /\ json_saved = NoOp
    /\ rows = {}
    /\ store_clock = 0
    /\ store_op = NoOp
    /\ criteria = NoCriteria
    /\ rejected = FALSE
    /\ params = NoParams
    /\ doc = <<>>
    /\ parse_pc = "idle"
    /\ parsed = <<>>
    /\ session = "new"
    /\ open_conns = 0
    /\ constructed = FALSE
    /\ min_delay = 0
    /\ backoff_multiplier = 1
    /\ max_delay = 0
    /\ reset_after = 0
    /\ current_delay = 0
    /\ consecutive_successes = 0
    /\ elapsed = 0
    /\ locked = FALSE
    /\ lock_waiters = <<>>
    /\ acq = [p \in Tasks |-> "idle"]
    /\ sleep_left = 0
    /\ just_granted = FALSE
    /\ grants = 0
    /\ last_gap = 0
    /\ wait_delay = 0
    /\ run_len = 0
    /\ run_base = 0
    /\ streak = -1
    /\ backoff_delay = 0
    /\ client_open = FALSE
    /\ max_retries = 1
    /\ max_results = 1
    /\ pc = "idle"
    /\ all_jobs = <<>>
    /\ start = 0
    /\ jobs = <<>>
    /\ attempt = 0
    /\ last_exc = "none"
    /\ raised_cause = "none"
    /\ returned = FALSE
    /\ result = <<>>
    /\ page_log = <<>>
    /\ paced = FALSE
    /\ page_successes = 0
    /\ page_start_delay = 0
    /\ offsets = <<>>

alertFrame == <<limiterVars, limiterObs, clientVars, clientObs, sessionVars,
                criteriaVars, parserVars, storeVars, jsonVars, markupVars>>

CreateAlert ==
    /\ \E name \in AlertNames, in \in CreateInputs :
           LET r == create_alert(alerts_file, name, in[1], in[2], in[3], in[4],
                                 in[5], in[6], in[7])
           IN  /\ alerts_file' = r.file
               /\ alert_op' = AlertOp("create", name, in, r.raised, r.ret)
    /\ UNCHANGED alerts_dir
    /\ UNCHANGED alertFrame

UpdateAlert ==
    /\ \E name \in AlertNames, enabled \in UpdateEnabled,
          keywords \in UpdateKeywords, location \in UpdateLocations :
           LET r == update_alert(alerts_file, name, enabled, keywords, location)
           IN  /\ alerts_file' = r.file
               /\ alert_op' = AlertOp("update", name,
                                      <<enabled, keywords, location>>,
                                      r.raised, r.ret)
    /\ UNCHANGED alerts_dir
    /\ UNCHANGED alertFrame

DeleteAlert ==
    /\ \E name \in AlertNames :
           LET r == delete_alert(alerts_file, name)
           IN  /\ alerts_file' = r.file
               /\ alert_op' = AlertOp("delete", name, <<>>, r.raised, r.ret)
    /\ UNCHANGED alerts_dir
    /\ UNCHANGED alertFrame

AlertsNext ==
    \/ CreateAlert
    \/ UpdateAlert
    \/ DeleteAlert

SpecAlerts == AlertsInit /\ [][AlertsNext]_vars

\* ------------------------------------------ claims about the saved alerts
\* The alerts stored, as list_alerts reads them, and the place of a name.
Stored(file) == from_file(file)
IndexOf(alerts, name) == CHOOSE i \in DOMAIN alerts : alerts[i].name = name

\* C28: create_alert with a name that is stored fails with an error and
\* leaves the alerts file as it was; with a new name (and valid criteria) it
\* succeeds, returns the alert, and the stored alerts are the old ones, each
\* unchanged and in order, followed by exactly that alert.
C28_CreateRejectsDuplicate ==
    [][alert_op'.op = "create"
       => LET in == alert_op'.args
              name == alert_op'.name
          IN  /\ name \in NamesOf(Stored(alerts_file))
                 => /\ alert_op'.raised
                    /\ alerts_file' = alerts_file
              /\ (name \notin NamesOf(Stored(alerts_file)) /\ in[6] >= 1)
                 => LET alert == SavedAlert(name,
                                   Criteria(in[1], in[2], in[3], in[4], in[5], in[6]),
                                   in[7])
                    IN  /\ ~alert_op'.raised
                        /\ alert_op'.ret = Some(alert)
                        /\ Stored(alerts_file') = Append(Stored(alerts_file), alert)
      ]_vars

\* A create was refused for a stored name, the other alert being stored too.
C28_Witness ==
    /\ alert_op.op = "create"
    /\ alert_op.raised
    /\ alert_op.name \in NamesOf(Stored(alerts_file))
    /\ Len(Stored(alerts_file)) = 2

\* C29: update_alert of a stored name changes only what is given: enabled
\* when given, keywords and location when given; the alert's name, time
\* window, work modes, employment types and result cap, the fields not given,
\* and every other stored alert stay as they were, and the updated alert is
\* returned.  For a name that is not stored it returns None and the file is
\* as it was.
C29_UpdateMergesFields ==
    [][alert_op'.op = "update"
       => LET name == alert_op'.name
              enabled == alert_op'.args[1]
              keywords == alert_op'.args[2]
              location == alert_op'.args[3]
              before == Stored(alerts_file)
              after == Stored(alerts_file')
          IN  /\ name \notin NamesOf(before)
                 => /\ alert_op'.ret = None
                    /\ alerts_file' = alerts_file
              /\ name \in NamesOf(before)
                 => LET i == IndexOf(before, name)
                    IN  /\ Len(after) = Len(before)
                        /\ \A j \in DOMAIN before : j # i => after[j] = before[j]
                        /\ alert_op'.ret = Some(after[i])
                        /\ after[i].name = name
                        /\ after[i].enabled =
                              IF enabled = None THEN before[i].enabled
                              ELSE enabled[1]
                        /\ after[i].criteria.keywords =
                              IF keywords = None THEN before[i].criteria.keywords
                              ELSE keywords[1]
                        /\ after[i].criteria.location =
                              IF location = None THEN before[i].criteria.location
                              ELSE location[1]
                        /\ after[i].criteria.time_filter = before[i].criteria.time_filter
                        /\ after[i].criteria.work_models = before[i].criteria.work_models
                        /\ after[i].criteria.job_types = before[i].criteria.job_types
                        /\ after[i].criteria.max_results = before[i].criteria.max_results
      ]_vars

\* An alert with non-default filters had its keywords replaced and its
\* location emptied, the other alert being stored too.
C29_Witness ==
    /\ alert_op.op = "update"
    /\ alert_op.args = <<None, Some("Rust"), Some("")>>
    /\ alert_op.ret # None
    /\ alert_op.ret[1].criteria.keywords = "Rust"
    /\ alert_op.ret[1].criteria.location = ""
    /\ alert_op.ret[1].criteria.work_models = <<REMOTE, HYBRID>>
    /\ alert_op.ret[1].criteria.max_results = 10
    /\ Len(Stored(alerts_file)) = 2

\* C37: from an empty alerts file on, whatever create_alert, update_alert and
\* delete_alert calls are made and whether they succeed or fail, no two stored
\* alerts have the same name, and get_alert(name) is the alert last created
\* or updated under the name, or None when none was or once it was deleted:
\* at first it is None for every name; a call that succeeds makes it the alert
\* the call returned (None for a delete); a call that fails leaves it as it
\* was; no call changes it for another name.
C37_NamesUniqueAndLatestWins ==
    /\ \A n \in AlertNames : get_alert(Stored(alerts_file), n) = None
    /\ [](\A i, j \in DOMAIN Stored(alerts_file) :
             Stored(alerts_file)[i].name = Stored(alerts_file)[j].name => i = j)
    /\ [][alert_op'.op \in {"create", "update", "delete"}
          => LET name == alert_op'.name
                 before == Stored(alerts_file)
                 after == Stored(alerts_file')
                 succeeded ==
                    IF alert_op'.op = "create" THEN ~alert_op'.raised
                    ELSE IF alert_op'.op = "update" THEN alert_op'.ret # None
                    ELSE alert_op'.ret = TRUE
             IN  /\ \A n \in AlertNames \ {name} :
                        get_alert(after, n) = get_alert(before, n)
                 /\ get_alert(after, name) =
                        IF ~succeeded THEN get_alert(before, name)
                        ELSE IF alert_op'.op = "delete" THEN None
                        ELSE alert_op'.ret
         ]_vars

\* One alert was deleted; the other one, which was created and then updated,
\* is the only one stored, with the keywords of the update.
C37_Witness ==
    /\ alert_op.op = "delete"
    /\ alert_op.ret = TRUE
    /\ get_alert(Stored(alerts_file), alert_op.name) = None
    /\ Len(Stored(alerts_file)) = 1
    /\ Stored(alerts_file)[1].criteria.keywords = "Rust"
    /\ ~Stored(alerts_file)[1].enabled

\* ------------------------------------------------- migrate_from_directory
\* AlertService.migrate_from_directory, alert_service.py lines 215-256.  The
\* source path is missing, a regular file, or a directory listing files: a
\* .yaml file holding one alert, a .yaml file that SavedAlert.from_file
\* cannot load, or a file of another suffix.
MaxDirFiles == 2
RegularFile == [exists |-> TRUE, is_dir |-> FALSE]
Directory(files) == [exists |-> TRUE, is_dir |-> TRUE, files |-> files]
MigratedAlerts ==
    {SavedAlert(name, Criteria("Python", "", PAST_WEEK, <<>>, <<>>, 100), TRUE) :
        name \in AlertNames}
    \cup {SavedAlert(name, Criteria("Go", "Paris", ANY_TIME, <<REMOTE, HYBRID>>,
                                    <<"F">>, 10), FALSE) : name \in AlertNames}
AlertYaml(alert) == [kind |-> "alert", data |-> AlertToYaml(alert)]
BrokenYaml == [kind |-> "broken", data |-> <<>>]
OtherFile == [kind |-> "other", data |-> <<>>]
DirEntries == {AlertYaml(a) : a \in MigratedAlerts} \cup {BrokenYaml, OtherFile}
Directories ==
    {Directory(files) : files \in UNION {[1..n -> DirEntries] : n \in 0..MaxDirFiles}}
Targets ==
    {NoFile, AlertsFile(<<>>),
     AlertsFile(<<SavedAlert("a", Criteria("Python", "", PAST_WEEK, <<>>, <<>>, 100),
                             TRUE)>>)}

\* alerts_dir.glob("*.yaml"), line 241: the .yaml files a directory lists;
\* a path that is not a directory yields nothing.
Glob(dir) ==
    IF dir.is_dir THEN SelectSeq(dir.files, LAMBDA f : f.kind # "other")
    ELSE <<>>

\* The loop of lines 241-248: a file that fails to load is skipped.
RECURSIVE LoadAlerts(_, _)
LoadAlerts(paths, k) ==
    IF k > Len(paths) THEN <<>>
    ELSE IF paths[k].kind = "alert"
    THEN <<AlertFromYaml(paths[k].data)>> \o LoadAlerts(paths, k + 1)
    ELSE LoadAlerts(paths, k + 1)

\* migrate_from_directory(alerts_dir, alerts_file), lines 231-256.
migrate_from_directory(dir, file) ==
    IF ~dir.exists
    THEN [file |-> file, raised |-> TRUE, ret |-> "FileNotFoundError"]
    ELSE IF file.exists
    THEN [file |-> file, raised |-> TRUE, ret |-> "ValueError"]
    ELSE LET alerts == LoadAlerts(Glob(dir), 1)
         IN  [file |-> AlertsFile(alerts), raised |-> FALSE, ret |-> Len(alerts)]

\* Any source path and any target.
MigrateInit ==
    /\ alerts_dir \in {NoFile, RegularFile} \cup Directories
    /\ alerts_file \in Targets
    /\ alert_op = NoOp
    /\ id_card = NoCard
    /\ id_op = NoOp
    /\ time_text = <<>>
    /\ time_op = NoOp
    /\ json_files = {}
    /\ json_op = NoOp
    /\ json_saved = NoOp
    /\ rows = {}
    /\ store_clock = 0
    /\ store_op = NoOp
    /\ criteria = NoCriteria
    /\ rejected = FALSE
    /\ params = NoParams
    /\ doc = <<>>
    /\ parse_pc = "idle"
    /\ parsed = <<>>
    /\ session = "new"
    /\ open_conns = 0
    /\ constructed = FALSE
    /\ min_delay = 0
    /\ backoff_multiplier = 1
    /\ max_delay = 0
    /\ reset_after = 0
    /\ current_delay = 0
    /\ consecutive_successes = 0
    /\ elapsed = 0
    /\ locked = FALSE
    /\ lock_waiters = <<>>
    /\ acq = [p \in Tasks |-> "idle"]
    /\ sleep_left = 0
    /\ just_granted = FALSE
    /\ grants = 0
    /\ last_gap = 0
    /\ wait_delay = 0
    /\ run_len = 0
    /\ run_base = 0
    /\ streak = -1
    /\ backoff_delay = 0
    /\ client_open = FALSE
    /\ max_retries = 1
    /\ max_results = 1
    /\ pc = "idle"
    /\ all_jobs = <<>>
    /\ start = 0
    /\ jobs = <<>>
    /\ attempt = 0
    /\ last_exc = "none"
    /\ raised_cause = "none"
    /\ returned = FALSE
    /\ result = <<>>
    /\ page_log = <<>>
    /\ paced = FALSE
    /\ page_successes = 0
    /\ page_start_delay = 0
    /\ offsets = <<>>

\* migrate_from_directory is called; the observation keeps the target file as
\* it was before the call.
Migrate ==
    /\ LET r == migrate_from_directory(alerts_dir, alerts_file)
       IN  /\ alerts_file' = r.file
           /\ alert_op' = AlertOp("migrate", "", <<alerts_file>>, r.raised, r.ret)
    /\ UNCHANGED alerts_dir
    /\ UNCHANGED alertFrame

MigrateNext == Migrate

SpecMigrate == MigrateInit /\ [][MigrateNext]_vars

\* C30 as stated: migrate_from_directory fails with NotADirectoryError when
\* the source path is missing or a regular file, and with ValueError when the
\* target file exists; in each of these cases the target file is neither
\* created nor modified.  (alert_op.args[1] is the target before the call.)
C30_MigrateFailuresLeaveTarget ==
    alert_op.op = "migrate"
    => LET target_before == alert_op.args[1]
       IN  /\ (~alerts_dir.exists \/ ~alerts_dir.is_dir)
              => /\ alert_op.raised
                 /\ alert_op.ret = "NotADirectoryError"
                 /\ alerts_file = target_before
           /\ (alerts_dir.exists /\ alerts_dir.is_dir /\ target_before.exists)
              => /\ alert_op.raised
                 /\ alert_op.ret = "ValueError"
                 /\ alerts_file = target_before

\* ------------------------------------------------ HTMLParser._extract_job_id
\* Attribute values and hrefs are tuples of characters: a digit, a character
\* that is none, a newline; in an href the text "/jobs/view/" is one element.
\* NoValue is what attributes.get() gives for an attribute written without a
\* value (Python's None).
MaxUrnLen == 2
MaxHrefLen == 3
MaxAnchors == 2
NoValue == [value |-> FALSE, text |-> <<>>]
Text(t) == [value |-> TRUE, text |-> t]
Newline == "nl"
View == "/jobs/view/"
Digits == {"1", "7"}
IsDigit(c) == c \in Digits

TextsOver(chars, n) == UNION {[1..k -> chars] : k \in 0..n}

\* The data-entity-urn of a card: absent (the default "" of line 139), without
\* a value, or a text.
Urns == {NoValue} \cup {Text(t) : t \in TextsOver({"u", "1", Newline}, MaxUrnLen)}

\* The <a> elements of a card, in document order: whether the element has the
\* class base-card__full-link, and its href ("" when it has none).
Hrefs == {NoValue} \cup {Text(t) : t \in TextsOver({View, "7", "u"}, MaxHrefLen)}
Anchor(full, href) == [full_link |-> full, href |-> href]
AnchorSet == {Anchor(f, h) : f \in BOOLEAN, h \in Hrefs}
IdCard(urn, anchors) == [given |-> TRUE, urn |-> urn, anchors |-> anchors]
IdCards ==
    {IdCard(u, a) : u \in Urns,
                    a \in UNION {[1..k -> AnchorSet] : k \in 0..MaxAnchors}}

\* Python's truth value of what attributes.get() returned.
IsText(v) == v.value
TruthyText(v) == v.value /\ v.text # <<>>

\* The longest run of digits of s that ends at position e, and the one that
\* begins at position k (\d+ is greedy, and re.search takes the leftmost match).
RunStart(s, e) ==
    CHOOSE b \in 1..e : /\ \A i \in b..e : IsDigit(s[i])
                        /\ (b = 1 \/ ~IsDigit(s[b - 1]))
RunEnd(s, k) ==
    CHOOSE e \in k..Len(s) : /\ \A i \in k..e : IsDigit(s[i])
                             /\ (e = Len(s) \/ ~IsDigit(s[e + 1]))

\* Where `$` matches without re.MULTILINE: at the end of the text, and before
\* a newline that is the last character of the text.
DollarAt(s) ==
    {Len(s)} \cup (IF s # <<>> /\ s[Len(s)] = Newline THEN {Len(s) - 1} ELSE {})

\* re.search(r"(\d+)$", urn), line 141: group 1, or None.
SearchDigitsAtEnd(s) ==
    LET ends == {e \in DollarAt(s) : e >= 1 /\ IsDigit(s[e])}
    IN  IF ends = {} THEN None
        ELSE LET e == CHOOSE x \in ends : TRUE
             IN  Some(SubSeq(s, RunStart(s, e), e))

\* re.search(r"/jobs/view/(\d+)", href), line 150: group 1, or None.
SearchJobsView(s) ==
    LET at == {k \in 1..(Len(s) - 1) : s[k] = View /\ IsDigit(s[k + 1])}
    IN  IF at = {} THEN None
        ELSE LET k == CHOOSE x \in at : \A y \in at : x <= y
             IN  Some(SubSeq(s, k + 1, RunEnd(s, k + 1)))

\* The selector of line 147: a.base-card__full-link, a[href*='/jobs/view/'].
MatchesLinkSelector(a) ==
    a.full_link \/ (IsText(a.href) /\ View \in Range(a.href.text))

\* card.css_first(selector), line 147: the first element that matches, or None.
css_first(anchors) ==
    LET at == {k \in DOMAIN anchors : MatchesLinkSelector(anchors[k])}
    IN  IF at = {} THEN None
        ELSE Some(anchors[CHOOSE x \in at : \A y \in at : x <= y])

\* _extract_job_id, lines 135-155: the identifier, None, or the TypeError that
\* re.search raises when the href it is handed is None.
extract_job_id(card) ==
    LET fromUrn == IF TruthyText(card.urn) THEN SearchDigitsAtEnd(card.urn.text)
                   ELSE None
        link == css_first(card.anchors)
    IN  IF fromUrn # None THEN [exc |-> "none", ret |-> fromUrn]
        ELSE IF link = None THEN [exc |-> "none", ret |-> None]
        ELSE IF ~IsText(link[1].href) THEN [exc |-> "TypeError", ret |-> None]
        ELSE [exc |-> "none", ret |-> SearchJobsView(link[1].href.text)]

\* _parse_job_card, lines 62-66 and 130-132, for a card whose other elements
\* parse: a record is built when an identifier was found; the TypeError is
\* caught and gives no record.
BuildsRecord(r) == r.exc = "none" /\ r.ret # None

ExtractInit ==
    /\ id_card \in IdCards
    /\ id_op = NoOp
    /\ time_text = <<>>
    /\ time_op = NoOp
    /\ rows = {}
    /\ store_clock = 0
    /\ store_op = NoOp
    /\ json_files = {}
    /\ json_op = NoOp
    /\ json_saved = NoOp
    /\ alerts_file = NoFile
    /\ alerts_dir = NoFile
    /\ alert_op = NoOp
    /\ criteria = NoCriteria
    /\ rejected = FALSE
    /\ params = NoParams
    /\ doc = <<>>
    /\ parse_pc = "idle"
    /\ parsed = <<>>
    /\ session = "new"
    /\ open_conns = 0
    /\ constructed = FALSE
    /\ min_delay = 0
    /\ backoff_multiplier = 1
    /\ max_delay = 0
    /\ reset_after = 0
    /\ current_delay = 0
    /\ consecutive_successes = 0
    /\ elapsed = 0
    /\ locked = FALSE
    /\ lock_waiters = <<>>
    /\ acq = [p \in Tasks |-> "idle"]
    /\ sleep_left = 0
    /\ just_granted = FALSE
    /\ grants = 0
    /\ last_gap = 0
    /\ wait_delay = 0
    /\ run_len = 0
    /\ run_base = 0
    /\ streak = -1
    /\ backoff_delay = 0
    /\ client_open = FALSE
    /\ max_retries = 1
    /\ max_results = 1
    /\ pc = "idle"
    /\ all_jobs = <<>>
    /\ start = 0
    /\ jobs = <<>>
    /\ attempt = 0
    /\ last_exc = "none"
    /\ raised_cause = "none"
    /\ returned = FALSE
    /\ result = <<>>
    /\ page_log = <<>>
    /\ paced = FALSE
    /\ page_successes = 0
    /\ page_start_delay = 0
    /\ offsets = <<>>

\* _parse_job_card is called on the card.
ExtractJobId ==
    /\ LET r == extract_job_id(id_card)
       IN  id_op' = [op |-> "extract", card |-> id_card, exc |-> r.exc,
                     ret |-> r.ret, record |-> BuildsRecord(r),
                     caught |-> IsCaught(r.exc)]
    /\ UNCHANGED <<id_card, time_text, time_op>>
    /\ UNCHANGED <<limiterVars, limiterObs, clientVars, clientObs, sessionVars,
                   criteriaVars, parserVars, storageVars>>

ExtractNext == ExtractJobId

SpecExtract == ExtractInit /\ [][ExtractNext]_vars

\* What the statement calls the numeric suffix of an attribute that ends in
\* digits, and the numeric segment of the detail link.
EndsInDigits(v) == TruthyText(v) /\ IsDigit(v.text[Len(v.text)])
NumericSuffix(v) == SubSeq(v.text, RunStart(v.text, Len(v.text)), Len(v.text))
LinkSegment(anchors) ==
    LET link == css_first(anchors)
    IN  IF link = None \/ ~IsText(link[1].href) THEN None
        ELSE SearchJobsView(link[1].href.text)

\* C35 as stated: the identifier of a card is the numeric suffix of its
\* data-entity-urn whenever that value ends in digits; only otherwise is it
\* the digits that follow /jobs/view/ in the href of the card's link; a card
\* for which neither gives digits produces no record.
C35_IdentifierFromUrnThenLink ==
    id_op.op = "extract"
    => LET card == id_op.card
       IN  IF EndsInDigits(card.urn)
           THEN id_op.record /\ id_op.ret = Some(NumericSuffix(card.urn))
           ELSE IF LinkSegment(card.anchors) # None
           THEN id_op.record /\ id_op.ret = LinkSegment(card.anchors)
           ELSE ~id_op.record

\* -------------------------------------------- HTMLParser._parse_relative_time
\* A text is words separated by blanks, all in lower or all in upper case.  A
\* word is a number or one of the words the patterns look for ("minute" stands
\* for every word that begins with it: "minutes"), or another word.
MaxWords == 3
HugeNumber == 800000
DaysSinceMin == 739920
Num(n) == [kind |-> "num", w |-> "", n |-> n]
Word(w) == [kind |-> "word", w |-> w, n |-> 0]
PatternUnits == <<"minute", "hour", "day", "week", "month">>
TimeWords ==
    {Num(1), Num(2), Num(HugeNumber)}
        \cup {Word(w) : w \in Range(PatternUnits)
                                \cup {"ago", "just", "now", "moments", "other"}}
TimeText(upper, words) == [upper |-> upper, words |-> words]
TimeTexts ==
    {TimeText(u, ws) : u \in BOOLEAN,
                       ws \in UNION {[1..k -> TimeWords] : k \in 0..MaxWords}}

\* text.lower().strip(), line 171.
LowerText(t) == [t EXCEPT !.upper = FALSE]

\* timedelta(minutes=n), (hours=n), (days=n), (weeks=n), (days=n * 30),
\* lines 175-179, normalised to days and minutes as timedelta does.
Delta(n, unit) ==
    IF unit = "minute"
    THEN [days |-> n \div 1440, minutes |-> n % 1440]
    ELSE IF unit = "hour"
    THEN [days |-> n \div 24, minutes |-> (n % 24) * 60]
    ELSE IF unit = "day" THEN [days |-> n, minutes |-> 0]
    ELSE IF unit = "week" THEN [days |-> n * 7, minutes |-> 0]
    ELSE [days |-> n * 30, minutes |-> 0]
NoDelta == [days |-> 0, minutes |-> 0]

\* `now - timedelta` raises OverflowError when the result would lie before
\* datetime.min.
BeforeMin(d) == d.days > DaysSinceMin

\* re.search(r"(\d+)\s*<unit>", text): where a number is followed by a word
\* that begins with the unit.  The patterns are in lower case.
UnitAt(t, unit) ==
    {k \in 1..(Len(t.words) - 1) :
        /\ ~t.upper
        /\ t.words[k].kind = "num"
        /\ t.words[k + 1] = Word(unit)}

\* re.search(r"just now|moments ago", text), line 180.
SaysNow(t) ==
    /\ ~t.upper
    /\ \E k \in 1..(Len(t.words) - 1) :
           \/ t.words[k] = Word("just") /\ t.words[k + 1] = Word("now")
           \/ t.words[k] = Word("moments") /\ t.words[k + 1] = Word("ago")

\* _parse_relative_time, lines 169-189: the first pattern of the list that is
\* found anywhere in the lowered text decides, by its leftmost match; the
\* result is the timedelta subtracted from now, None, or the OverflowError
\* of the subtraction.
parse_relative_time(text) ==
    LET t == LowerText(text)
        found == {i \in DOMAIN PatternUnits : UnitAt(t, PatternUnits[i]) # {}}
    IN  IF found # {}
        THEN LET i == CHOOSE x \in found : \A y \in found : x <= y
                 at == UnitAt(t, PatternUnits[i])
                 k == CHOOSE x \in at : \A y \in at : x <= y
                 d == Delta(t.words[k].n, PatternUnits[i])
             IN  IF BeforeMin(d) THEN [exc |-> "OverflowError", ret |-> None]
                 ELSE [exc |-> "none", ret |-> Some(d)]
        ELSE IF SaysNow(t) THEN [exc |-> "none", ret |-> Some(NoDelta)]
        ELSE [exc |-> "none", ret |-> None]

RelTimeInit ==
    /\ time_text \in TimeTexts
    /\ time_op = NoOp
    /\ id_card = NoCard
    /\ id_op = NoOp
    /\ rows = {}
    /\ store_clock = 0
    /\ store_op = NoOp
    /\ json_files = {}
    /\ json_op = NoOp
    /\ json_saved = NoOp
    /\ alerts_file = NoFile
    /\ alerts_dir = NoFile
    /\ alert_op = NoOp
    /\ criteria = NoCriteria
    /\ rejected = FALSE
    /\ params = NoParams
    /\ doc = <<>>
    /\ parse_pc = "idle"
    /\ parsed = <<>>
    /\ session = "new"
    /\ open_conns = 0
    /\ constructed = FALSE
    /\ min_delay = 0
    /\ backoff_multiplier = 1
    /\ max_delay = 0
    /\ reset_after = 0
    /\ current_delay = 0
    /\ consecutive_successes = 0
    /\ elapsed = 0
    /\ locked = FALSE
    /\ lock_waiters = <<>>
    /\ acq = [p \in Tasks |-> "idle"]
    /\ sleep_left = 0
    /\ just_granted = FALSE
    /\ grants = 0
    /\ last_gap = 0
    /\ wait_delay = 0
    /\ run_len = 0
    /\ run_base = 0
    /\ streak = -1
    /\ backoff_delay = 0
    /\ client_open = FALSE
    /\ max_retries = 1
    /\ max_results = 1
    /\ pc = "idle"
    /\ all_jobs = <<>>
    /\ start = 0
    /\ jobs = <<>>
    /\ attempt = 0
    /\ last_exc = "none"
    /\ raised_cause = "none"
    /\ returned = FALSE
    /\ result = <<>>
    /\ page_log = <<>>
    /\ paced = FALSE
    /\ page_successes = 0
    /\ page_start_delay = 0
    /\ offsets = <<>>

\* _parse_relative_time(text) is called.
ParseRelTime ==
    /\ LET r == parse_relative_time(time_text)
       IN  time_op' = [op |-> "parse_relative_time", text |-> time_text,
                       exc |-> r.exc, ret |-> r.ret]
    /\ UNCHANGED <<time_text, id_card, id_op>>
    /\ UNCHANGED <<limiterVars, limiterObs, clientVars, clientObs, sessionVars,
                   criteriaVars, parserVars, storageVars>>

RelTimeNext == ParseRelTime

SpecRelTime == RelTimeInit /\ [][RelTimeNext]_vars

\* The texts the statement names: "N <unit>s ago", and the two that mean now.
IsNAgo(t) ==
    /\ Len(t.words) = 3
    /\ t.words[1].kind = "num"
    /\ t.words[2] \in {Word(u) : u \in Range(PatternUnits)}
    /\ t.words[3] = Word("ago")
IsNowText(t) ==
    t.words \in {<<Word("just"), Word("now")>>, <<Word("moments"), Word("ago")>>}

\* C36 as stated: in either case, "N minutes ago", "N hours ago", "N days
\* ago", "N weeks ago" and "N months ago" give the current time minus N of the
\* unit, a month being 30 days; "just now" and "moments ago" give the current
\* time; every other text gives None, and no text makes the call raise.
C36_RelativeTimeTable ==
    time_op.op = "parse_relative_time"
    => LET t == time_op.text
       IN  /\ time_op.exc = "none"
           /\ IF IsNAgo(t)
              THEN time_op.ret = Some(Delta(t.words[1].n, t.words[2].w))
              ELSE IF IsNowText(t) THEN time_op.ret = Some(NoDelta)
              ELSE time_op.ret = None

====
